---------------------------- MODULE Spec2Model ----------------------------
(***************************************************************************)
(* A model of the GFF feature-set library of PHAST (src/lib/feature/gff.c). *)
(*                                                                         *)
(* A GFF_Set owns a list of GFF_Feature records (set->features) and may    *)
(* carry a grouping index (set->groups, set->group_tag) whose groups hold  *)
(* non-owning references to the same records.  Records live in a heap      *)
(* (feat) indexed by an address; lists hold addresses, so that aliasing    *)
(* between the flat list and the groups, and the freeing of records, are   *)
(* visible.  Strings are sequences of one-character strings.               *)
(***************************************************************************)
EXTENDS Integers, Sequences, FiniteSets, TLC

VARIABLES
    feat,        \* heap: address -> GFF_Feature
    features,    \* set->features: sequence of addresses
    groups,      \* set->groups: NULL or Ptr(sequence of GFF_FeatureGroup)
    group_tag,   \* set->group_tag: NULL or Ptr(string)
    freed,       \* addresses passed to gff_free_feature
    last,        \* the operation that produced this state, with its arguments
    pre,         \* the set as it was before that operation
    log,         \* gff_remove_overlaps: one entry per candidate group
    nops,        \* number of operations applied so far
    died         \* die() was called: the run has ended with exit(1)

vars == <<feat, features, groups, group_tag, freed, last, pre, log, nops, died>>

-----------------------------------------------------------------------------
(* Pointers and sequences *)

NULL == [isnull |-> TRUE]

Ptr(v) == [isnull |-> FALSE, val |-> v]

Range(s) == {s[i] : i \in 1..Len(s)}

RECURSIVE SumSeq(_)
SumSeq(s) == IF s = <<>> THEN 0 ELSE Head(s) + SumSeq(Tail(s))

RECURSIVE Flat(_)
Flat(ss) == IF ss = <<>> THEN <<>> ELSE Head(ss) \o Flat(Tail(ss))

RemoveAt(s, i) == SubSeq(s, 1, i - 1) \o SubSeq(s, i + 1, Len(s))

(* lst_insert_idx_*(l, idx, x): insert x after 0-based index idx, -1 for the front *)
InsertAfter(s, idx, x) == SubSeq(s, 1, idx + 1) \o <<x>> \o SubSeq(s, idx + 2, Len(s))

Reverse(s) == [i \in 1..Len(s) |-> s[Len(s) - i + 1]]

Min(S) == CHOOSE x \in S : \A y \in S : x <= y

Max(S) == CHOOSE x \in S : \A y \in S : x >= y

(* the longest member list among the groups gs *)
MaxMembers(gs) == Max({0} \cup {Len(gs[i].features) : i \in 1..Len(gs)})


-----------------------------------------------------------------------------
(* Program constants (gff.h, misc.h) *)

GFF_NULL_FRAME == -1

INFTY == 999999999

GFF_CDS_TYPE == <<"C", "D", "S">>

GFF_EXON_TYPE == <<"e", "x", "o", "n">>

GFF_INTRON_TYPE == <<"i", "n", "t", "r", "o", "n">>

GFF_UTR5_TYPE == <<"5", "'", "U", "T", "R">>

GFF_UTR3_TYPE == <<"3", "'", "U", "T", "R">>

GFF_START_TYPE == <<"s", "t", "a", "r", "t", "_", "c", "o", "d", "o", "n">>

GFF_STOP_TYPE == <<"s", "t", "o", "p", "_", "c", "o", "d", "o", "n">>

GFF_SPLICE5_TYPE == <<"5", "'", "s", "p", "l", "i", "c", "e">>

GFF_SPLICE3_TYPE == <<"3", "'", "s", "p", "l", "i", "c", "e">>

(* the tag gff_group_by_feature records as the set's group_tag *)
FEATURE_TAG == <<"f", "e", "a", "t", "u", "r", "e">>

-----------------------------------------------------------------------------
(* The set as one value: the operations are functions from sets to sets *)

Cur ==
    [feat |-> feat, features |-> features, groups |-> groups,
     group_tag |-> group_tag, freed |-> freed]

(* gff_new_feature: a record with the given fields *)
gff_new_feature(feature, start, end, score, strand, frame, attribute, score_is_null) ==
    [seqname |-> <<"c">>, source |-> <<"s">>, feature |-> feature,
     start |-> start, end |-> end, score |-> score, strand |-> strand,
     frame |-> frame, attribute |-> attribute, score_is_null |-> score_is_null]

(* smalloc of a new GFF_Feature: the next unused address *)
NewAddr(S) == Len(S.feat) + 1

(* gff_new_feature_copy followed by the caller's edits `f`, pushed on the heap *)
Alloc(S, f) == [S EXCEPT !.feat = Append(@, f)]

gff_free_feature(S, a) == [S EXCEPT !.freed = @ \cup {a}]

RECURSIVE FreeAll(_, _)
FreeAll(S, as) ==
    IF as = <<>> THEN S ELSE FreeAll(gff_free_feature(S, Head(as)), Tail(as))

-----------------------------------------------------------------------------
(* gff_ungroup *)

(* a variant of gff_ungroup that frees the groups' members with the groups *)
gff_ungroup_FreeingMembers(S) ==
    IF S.groups = NULL THEN S
    ELSE [S EXCEPT !.groups = NULL, !.group_tag = NULL,
                   !.freed = @ \cup UNION {Range(S.groups.val[i].features) :
                                            i \in 1..Len(S.groups.val)}]

gff_ungroup(S) ==
    IF S.groups = NULL THEN S
    ELSE [S EXCEPT !.groups = NULL, !.group_tag = NULL]

-----------------------------------------------------------------------------
(* gff_group: the tag's value in an attribute *)

IsSpace(c) == c = " "

TagAt(a, p, tag) ==
    /\ p + Len(tag) - 1 <= Len(a)
    /\ SubSeq(a, p, p + Len(tag) - 1) = tag

(* last position of the run of characters satisfying the test that starts at q *)
RunEnd(a, q, space) ==
    Max({r \in q..Len(a) : \A k \in q..r : IsSpace(a[k]) = space})

(* ("[^"]*"|[^[:space:]]+) at position v *)
ValueAt(a, v) ==
    LET closing == {k \in (v + 1)..Len(a) : a[k] = "\""}
    IN  IF a[v] = "\"" /\ closing # {}
        THEN SubSeq(a, v, Min(closing))
        ELSE SubSeq(a, v, RunEnd(a, v, FALSE))

(* positions p at which  tag[[:space:]]+(value)  matches *)
MatchStarts(a, tag) ==
    {p \in 1..Len(a) :
        /\ TagAt(a, p, tag)
        /\ p + Len(tag) <= Len(a)
        /\ IsSpace(a[p + Len(tag)])
        /\ RunEnd(a, p + Len(tag), TRUE) < Len(a)}

(* str_re_match(attribute, ".*tag[[:space:]]+(\"[^\"]*\"|[^[:space:]]+)") >= 0 *)
str_re_match(a, tag) == MatchStarts(a, tag) # {}

(* the first subexpression of the match: .* is greedy, so the last tag wins *)
MatchGroup1(a, tag) ==
    LET p == Max(MatchStarts(a, tag))
    IN  ValueAt(a, RunEnd(a, p + Len(tag), TRUE) + 1)

str_remove_quotes(v) ==
    LET w == IF v # <<>> /\ v[1] = "\"" THEN Tail(v) ELSE v
    IN  IF w # <<>> /\ w[Len(w)] = "\"" THEN SubSeq(w, 1, Len(w) - 1) ELSE w

(* lines 637-648: the grouping value of a feature, the empty string when absent *)
TagValue(f, tag) ==
    IF Len(f.attribute) > Len(tag) /\ str_re_match(f.attribute, tag)
    THEN LET v == MatchGroup1(f.attribute, tag)
             w == IF v # <<>> /\ v[Len(v)] = ";" THEN SubSeq(v, 1, Len(v) - 1) ELSE v
         IN  str_remove_quotes(w)
    ELSE <<>>

(* a variant of hsh_get that finds no group under any name *)
hsh_get_Miss(gs, name) == 0

(* hsh_get(hash, name): 0-for-absent index of the group put under name *)
hsh_get(gs, name) ==
    IF \E i \in 1..Len(gs) : gs[i].name = name
    THEN CHOOSE i \in 1..Len(gs) : gs[i].name = name
    ELSE 0

(* lines 650-664: add feature at address a, with value val, to the groups *)
GroupAdd(gs, F, a, val) ==
    LET i == hsh_get(gs, val)
        f == F[a]
    IN  IF i = 0
        THEN Append(gs, [name |-> val, features |-> <<a>>,
                         start |-> f.start, end |-> f.end])
        ELSE [gs EXCEPT ![i] =
                [name |-> @.name,
                 features |-> Append(@.features, a),
                 start |-> IF f.start < @.start THEN f.start ELSE @.start,
                 end |-> IF f.end > @.end THEN f.end ELSE @.end]]

RECURSIVE GroupLoop(_, _, _, _)
GroupLoop(gs, F, as, tag) ==
    IF as = <<>> THEN gs
    ELSE GroupLoop(GroupAdd(gs, F, Head(as), TagValue(F[Head(as)], tag)),
                   F, Tail(as), tag)

gff_group(S, tag) ==
    LET S1 == gff_ungroup(S)
    IN  [S1 EXCEPT !.groups = Ptr(GroupLoop(<<>>, S1.feat, S1.features, tag)),
                   !.group_tag = Ptr(tag)]

RECURSIVE GroupByFeatureLoop(_, _, _)
GroupByFeatureLoop(gs, F, as) ==
    IF as = <<>> THEN gs
    ELSE GroupByFeatureLoop(GroupAdd(gs, F, Head(as), F[Head(as)].feature),
                            F, Tail(as))

gff_group_by_feature(S) ==
    LET S1 == gff_ungroup(S)
    IN  [S1 EXCEPT !.groups = Ptr(GroupByFeatureLoop(<<>>, S1.feat, S1.features)),
                   !.group_tag = Ptr(FEATURE_TAG)]

-----------------------------------------------------------------------------
(* gff_sort *)

(* a variant of gff_feature_comparator that orders by end alone *)
gff_feature_comparator_ByEnd(f1, f2) == f1.end - f2.end

gff_feature_comparator(f1, f2) ==
    IF f1.start # f2.start THEN f1.start - f2.start ELSE f1.end - f2.end

(* a variant of gff_group_comparator that orders by end alone *)
gff_group_comparator_ByEnd(g1, g2) ==
    IF Len(g1.features) = 0 \/ Len(g2.features) = 0 THEN 0 ELSE g1.end - g2.end

gff_group_comparator(g1, g2) ==
    IF Len(g1.features) = 0 \/ Len(g2.features) = 0 THEN 0
    ELSE IF g1.start # g2.start THEN g1.start - g2.start ELSE g1.end - g2.end

(* lst_qsort: the orders of 1..n that are ascending for the comparator, le *)
(* being the pairs <<i, j>> with compare(x_i, x_j) <= 0; qsort promises no *)
(* more than one of them                                                   *)
SortedOrders(n, le) ==
    {p \in [1..n -> 1..n] :
        /\ \A i, j \in 1..n : i # j => p[i] # p[j]
        /\ \A i \in 1..(n - 1) : <<p[i], p[i + 1]>> \in le}

(* lst_qsort(l, gff_feature_comparator) on a list of addresses *)
QsortFeatures(F, as) ==
    LET n == Len(as)
        le == {ij \in (1..n) \X (1..n) :
                 gff_feature_comparator(F[as[ij[1]]], F[as[ij[2]]]) <= 0}
    IN  {[i \in 1..n |-> as[p[i]]] : p \in SortedOrders(n, le)}

QsortGroups(gs) ==
    LET n == Len(gs)
        le == {ij \in (1..n) \X (1..n) : gff_group_comparator(gs[ij[1]], gs[ij[2]]) <= 0}
    IN  {[i \in 1..n |-> gs[p[i]]] : p \in SortedOrders(n, le)}

(* lines 597-599: every group's member list sorted *)
RECURSIVE SortMembers(_, _)
SortMembers(F, gs) ==
    IF gs = <<>> THEN {<<>>}
    ELSE {<<[Head(gs) EXCEPT !.features = m]>> \o rest :
            m \in QsortFeatures(F, Head(gs).features),
            rest \in SortMembers(F, Tail(gs))}

(* lines 602-607: the flat list rewritten from the groups *)
FeaturesOfGroups(gs) == Flat([i \in 1..Len(gs) |-> gs[i].features])

gff_sort(S) ==
    IF S.groups = NULL
    THEN {[S EXCEPT !.features = q] : q \in QsortFeatures(S.feat, S.features)}
    ELSE {[S EXCEPT !.groups = Ptr(gs2), !.features = FeaturesOfGroups(gs2)] :
            gs2 \in UNION {QsortGroups(gs1) : gs1 \in SortMembers(S.feat, S.groups.val)}}

-----------------------------------------------------------------------------
(* gff_remove_overlaps *)

(* lines 824-828: sum of the members' non-null scores, else the group's span *)
GroupScore(F, g) ==
    LET scored == {i \in 1..Len(g.features) : ~F[g.features[i]].score_is_null}
    IN  IF scored # {}
        THEN SumSeq([i \in 1..Len(g.features) |->
                        IF i \in scored THEN F[g.features[i]].score ELSE 0])
        ELSE g.end - g.start + 1

(* lst_bsearch_int(starts, val): 0-based index of the element before the *)
(* insertion point of val in the ascending list, -1 for the front        *)
lst_bsearch_int(starts, val) ==
    LET le == {i \in 1..Len(starts) : starts[i] <= val}
    IN  IF le = {} THEN -1 ELSE Max(le) - 1

(* lines 854-857: the index the downward scan stops at (before minidx++) *)
RECURSIVE ScanDown(_, _, _)
ScanDown(ends, minidx, start) ==
    IF minidx >= 0 /\ ends[minidx + 1] >= start
    THEN ScanDown(ends, minidx - 1, start)
    ELSE minidx

(* lines 859-862: the index the upward scan stops at (before maxidx--) *)
RECURSIVE ScanUp(_, _, _)
ScanUp(starts, maxidx, end) ==
    IF maxidx < Len(starts) /\ starts[maxidx + 1] <= end
    THEN ScanUp(starts, maxidx + 1, end)
    ELSE maxidx

(* a variant of OverlapsNeighbour that misses groups sharing one coordinate *)
OverlapsNeighbourStrict(prev_end, next_start, group) ==
    prev_end > group.start \/ next_start < group.end

(* line 848: the candidate overlaps the retained group before or after it *)
OverlapsNeighbour(prev_end, next_start, group) ==
    prev_end >= group.start \/ next_start <= group.end

(* variants of Outscores: a tie replaces; the comparison reversed *)
OutscoresOrTies(score, altscore) == score >= altscore

OutscoresReversed(score, altscore) == altscore > score

(* line 865: the candidate replaces the retained groups it overlaps *)
Outscores(score, altscore) == score > altscore

(* lines 816-902: one candidate group, index gi of gs.  st holds the lists *)
(* starts, ends, scores, keepers (0-based in the code, 1-based here),      *)
(* last_end and the set S in which discarded groups' features are freed    *)
OverlapStep(st, gs, gi) ==
    LET group == gs[gi]
        score == GroupScore(st.S.feat, group)
        n == Len(st.starts)
        list_idx == lst_bsearch_int(st.starts, group.start)
        prev_end == IF list_idx >= 0 THEN st.ends[list_idx + 1] ELSE -1
        next_start == IF list_idx + 1 < n THEN st.starts[list_idx + 2] ELSE INFTY
        minidx == ScanDown(st.ends, list_idx, group.start) + 1
        maxidx == ScanUp(st.starts, list_idx + 1, group.end) - 1
        altscore == SumSeq(SubSeq(st.scores, minidx + 1, maxidx + 1))
        cut(l) == SubSeq(l, 1, minidx) \o SubSeq(l, maxidx + 2, Len(l))
        entry(after, slow) ==
            [cand |-> gi, before |-> st.keepers, after |-> after,
             score |-> score, slow |-> slow]
    IN  IF group.start > st.last_end
        THEN [st EXCEPT !.starts = Append(@, group.start),
                        !.ends = Append(@, group.end),
                        !.scores = Append(@, score),
                        !.keepers = Append(@, gi),
                        !.last_end = group.end,
                        !.log = Append(@, entry(Append(st.keepers, gi), FALSE))]
        ELSE IF OverlapsNeighbour(prev_end, next_start, group)
        THEN IF Outscores(score, altscore)
             THEN LET discards == SubSeq(st.keepers, minidx + 1, maxidx + 1)
                      keepers == InsertAfter(cut(st.keepers), minidx - 1, gi)
                  IN  [starts |-> InsertAfter(cut(st.starts), minidx - 1, group.start),
                       ends |-> InsertAfter(cut(st.ends), minidx - 1, group.end),
                       scores |-> InsertAfter(cut(st.scores), minidx - 1, score),
                       keepers |-> keepers,
                       last_end |-> IF group.end > st.last_end
                                    THEN group.end ELSE st.last_end,
                       S |-> FreeAll(st.S, Flat([k \in 1..Len(discards) |->
                                                    gs[discards[k]].features])),
                       log |-> Append(st.log, entry(keepers, TRUE))]
             ELSE [st EXCEPT !.S = FreeAll(@, group.features),
                             !.log = Append(@, entry(st.keepers, TRUE))]
        ELSE LET keepers == InsertAfter(st.keepers, list_idx, gi)
             IN  [st EXCEPT !.starts = InsertAfter(@, list_idx, group.start),
                            !.ends = InsertAfter(@, list_idx, group.end),
                            !.scores = InsertAfter(@, list_idx, score),
                            !.keepers = keepers,
                            !.last_end = IF group.end > @ THEN group.end ELSE @,
                            !.log = Append(@, entry(keepers, TRUE))]

RECURSIVE OverlapLoop(_, _, _)
OverlapLoop(st, gs, i) ==
    IF i > Len(gs) THEN st ELSE OverlapLoop(OverlapStep(st, gs, i), gs, i + 1)

(* the function's result: the loop's final lists, then lines 905-912 *)
OverlapRun(S) ==
    OverlapLoop([starts |-> <<>>, ends |-> <<>>, scores |-> <<>>, keepers |-> <<>>,
                 last_end |-> -1, S |-> S, log |-> <<>>],
                S.groups.val, 1)

gff_remove_overlaps(S) ==
    LET st == OverlapRun(S)
        kept == [k \in 1..Len(st.keepers) |-> S.groups.val[st.keepers[k]]]
    IN  [st.S EXCEPT !.groups = Ptr(kept), !.features = FeaturesOfGroups(kept)]

-----------------------------------------------------------------------------
(* gff_filter_by_type, gff_clear_set, gff_add_offset, gff_reverse_compl *)

(* lines 492-504: records kept in order, the others freed *)
RECURSIVE FilterLoop(_, _, _, _)
FilterLoop(st, as, types, exclude) ==
    IF as = <<>> THEN st
    ELSE LET in_list == st.S.feat[Head(as)].feature \in types
             keep == (in_list /\ ~exclude) \/ (~in_list /\ exclude)
         IN  FilterLoop(IF keep
                        THEN [st EXCEPT !.newfeats = Append(@, Head(as))]
                        ELSE [st EXCEPT !.S = gff_free_feature(@, Head(as)),
                                        !.changed = TRUE],
                        Tail(as), types, exclude)

gff_filter_by_type(S, types, exclude) ==
    LET st == FilterLoop([S |-> S, newfeats |-> <<>>, changed |-> FALSE],
                         S.features, types, exclude)
        S1 == [st.S EXCEPT !.features = st.newfeats]
    IN  IF st.changed /\ S1.groups # NULL THEN gff_ungroup(S1) ELSE S1

gff_clear_set(S) ==
    LET S1 == [FreeAll(S, S.features) EXCEPT !.features = <<>>]
    IN  IF S1.groups # NULL THEN gff_ungroup(S1) ELSE S1

(* lines 1441-1452: one feature shifted, then freed or clamped and kept *)
RECURSIVE OffsetLoop(_, _, _, _)
OffsetLoop(st, as, offset, maxCoord) ==
    IF as = <<>> THEN st
    ELSE LET a == Head(as)
             start == st.S.feat[a].start + offset
             end == st.S.feat[a].end + offset
             S1 == [st.S EXCEPT !.feat[a].start = start, !.feat[a].end = end]
         IN  OffsetLoop(
                IF end < 1 \/ (maxCoord > 0 /\ start > maxCoord)
                THEN [st EXCEPT !.S = gff_free_feature(S1, a)]
                ELSE [S |-> [S1 EXCEPT
                               !.feat[a].start = IF start < 1 THEN 1 ELSE start,
                               !.feat[a].end = IF maxCoord > 0 /\ end > maxCoord
                                               THEN maxCoord ELSE end],
                      keepers |-> Append(st.keepers, a)],
                Tail(as), offset, maxCoord)

(* a variant of gff_add_offset that applies no upper bound *)
gff_add_offset_Unbounded(S, offset, maxCoord) ==
    LET st == OffsetLoop([S |-> S, keepers |-> <<>>], S.features, offset, 0)
        S1 == [st.S EXCEPT !.features = st.keepers]
    IN  IF S1.groups # NULL THEN gff_ungroup(S1) ELSE S1

gff_add_offset(S, offset, maxCoord) ==
    LET st == OffsetLoop([S |-> S, keepers |-> <<>>], S.features, offset, maxCoord)
        S1 == [st.S EXCEPT !.features = st.keepers]
    IN  IF S1.groups # NULL THEN gff_ungroup(S1) ELSE S1

(* lines 545-552: the features of the list mapped into the reversed interval *)
RECURSIVE ReverseComplLoop(_, _, _, _)
ReverseComplLoop(F, as, start_range, end_range) ==
    IF as = <<>> THEN F
    ELSE LET a == Head(as)
             tmp == F[a].start
         IN  ReverseComplLoop(
                [F EXCEPT ![a].start = end_range - F[a].end + start_range,
                          ![a].end = end_range - tmp + start_range,
                          ![a].strand = IF @ = "-" THEN "+"
                                        ELSE IF @ = "+" THEN "-" ELSE @],
                Tail(as), start_range, end_range)

(* a variant of gff_reverse_compl that leaves the order of the list *)
gff_reverse_compl_KeepsOrder(S, start_range, end_range) ==
    [S EXCEPT !.feat = ReverseComplLoop(S.feat, S.features, start_range, end_range)]

(* gff_reverse_compl(set->features, start_range, end_range): the function is *)
(* handed the list alone, so the set's groups are out of its reach           *)
gff_reverse_compl(S, start_range, end_range) ==
    [S EXCEPT !.feat = ReverseComplLoop(S.feat, S.features, start_range, end_range),
              !.features = Reverse(S.features)]

-----------------------------------------------------------------------------
(* gff_group_idx, gff_flatten_sub, gff_flatten, gff_flatten_within_groups *)

(* lines 1267-1275: <<index of the first group holding a, position in it>>, *)
(* both 1-based; <<0, 0>> where the code dies                               *)
gff_group_idx(S, a) ==
    LET gs == S.groups.val
        hits == {ij \in {<<i, j>> : i \in 1..Len(gs), j \in 1..MaxMembers(gs)} :
                    ij[2] <= Len(gs[ij[1]].features) /\ gs[ij[1]].features[ij[2]] = a}
    IN  IF hits = {} THEN <<0, 0>>
        ELSE CHOOSE ij \in hits :
                \A kl \in hits : ij[1] < kl[1] \/ (ij[1] = kl[1] /\ ij[2] <= kl[2])

(* a variant of Mergeable that looks at this->end where it should at start *)
Mergeable_ByEnd(l, t) ==
    /\ l.end >= t.end - 1
    /\ l.strand = t.strand
    /\ l.feature = t.feature
    /\ l.frame = GFF_NULL_FRAME
    /\ t.frame = GFF_NULL_FRAME

(* lines 1309-1311 *)
Mergeable(l, t) ==
    /\ l.end >= t.start - 1
    /\ l.strand = t.strand
    /\ l.feature = t.feature
    /\ l.frame = GFF_NULL_FRAME
    /\ t.frame = GFF_NULL_FRAME

(* lines 1325-1330: `this` merged into `last` and freed *)
MergeInto(S, lastA, thisA) ==
    LET l == S.feat[lastA]
        t == S.feat[thisA]
    IN  gff_free_feature(
            [S EXCEPT !.feat[lastA].end = t.end,
                      !.feat[lastA].score =
                          IF ~l.score_is_null /\ ~t.score_is_null
                          THEN l.score + t.score ELSE l.score],
            thisA)

(* line 1323, lst_delete_idx(lst_get_ptr(feats->groups, thisGrp), thispos):  *)
(* the GFF_FeatureGroup itself is passed as the List to delete from, so the  *)
(* call works on the words of the group structure.  Where a pointer is as    *)
(* wide as an int the list's ridx is the group's start, which is decremented *)
(* and the member list is left as it was; where pointers are wider the       *)
(* decremented word is half of the pointer to the member list, and the run   *)
(* ends at the next use of it, or no damage shows.  The set of sets the call *)
(* can leave.                                                                *)
DeleteFromGroup(S, grp, pos) ==
    {S, [S EXCEPT !.groups.val[grp].start = @ - 1]}

(* lines 1307-1336: the loop from feature i on; the set of final loop states *)
RECURSIVE FlattenLoop(_, _, _)
FlattenLoop(st, i, keepGroups) ==
    IF i > Len(st.S.features) THEN {st}
    ELSE LET this == st.S.features[i]
         IN  IF Mergeable(st.S.feat[st.last], st.S.feat[this])
             THEN IF keepGroups /\ st.S.groups # NULL
                  THEN LET thisGrp == gff_group_idx(st.S, this)
                           lastGrp == gff_group_idx(st.S, st.last)
                       IN  IF thisGrp[1] # lastGrp[1]
                           THEN FlattenLoop(st, i + 1, keepGroups)
                           ELSE UNION {FlattenLoop(
                                          [st EXCEPT !.S = MergeInto(S1, st.last, this),
                                                     !.changed = TRUE],
                                          i + 1, keepGroups) :
                                       S1 \in DeleteFromGroup(st.S, thisGrp[1], thisGrp[2])}
                  ELSE FlattenLoop([st EXCEPT !.S = MergeInto(@, st.last, this),
                                              !.changed = TRUE],
                                   i + 1, keepGroups)
             ELSE FlattenLoop([st EXCEPT !.keepers = Append(@, this), !.last = this],
                              i + 1, keepGroups)

gff_flatten_sub(S, keepGroups) ==
    IF Len(S.features) <= 1 THEN {S}
    ELSE {IF st.changed
          THEN LET S1 == [st.S EXCEPT !.features = st.keepers]
               IN  IF S1.groups # NULL /\ ~keepGroups THEN gff_ungroup(S1) ELSE S1
          ELSE st.S :
          st \in FlattenLoop([S |-> S, keepers |-> <<S.features[1]>>,
                              last |-> S.features[1], changed |-> FALSE],
                             2, keepGroups)}

gff_flatten(S) == gff_flatten_sub(S, FALSE)

(* lines 1373-1389 *)
RECURSIVE FlattenWithinLoop(_, _)
FlattenWithinLoop(st, i) ==
    IF i > Len(st.S.features) THEN st
    ELSE LET this == st.S.features[i]
         IN  IF Mergeable(st.S.feat[st.last], st.S.feat[this])
             THEN FlattenWithinLoop([st EXCEPT !.S = MergeInto(@, st.last, this),
                                               !.changed = TRUE], i + 1)
             ELSE FlattenWithinLoop([st EXCEPT !.keepers = Append(@, this),
                                               !.last = this], i + 1)

gff_flatten_within_groups(S) ==
    IF Len(S.features) <= 1 THEN S
    ELSE LET st == FlattenWithinLoop([S |-> S, keepers |-> <<S.features[1]>>,
                                      last |-> S.features[1], changed |-> FALSE], 2)
         IN  IF st.changed
             THEN LET S1 == [st.S EXCEPT !.features = st.keepers]
                  IN  IF S1.groups # NULL THEN gff_ungroup(S1) ELSE S1
             ELSE st.S

-----------------------------------------------------------------------------
(* gff_create_utrs, gff_create_introns, gff_create_signals *)

(* a variant of PushDerived that leaves the group's member list alone *)
PushDerived_FlatOnly(S, gi, f) ==
    [S EXCEPT !.feat = Append(@, f), !.features = Append(@, NewAddr(S))]

(* lst_push_ptr(feats->features, f); lst_push_ptr(g->features, f) for the *)
(* copy f just made, g being the group at index gi                        *)
PushDerived(S, gi, f) ==
    [S EXCEPT !.feat = Append(@, f),
              !.features = Append(@, NewAddr(S)),
              !.groups.val[gi].features = Append(@, NewAddr(S))]

(* the scans that open the three functions *)
MembersOfType(F, g, types) == {a \in Range(g.features) : F[a].feature \in types}

cds_start(F, g) ==
    Min({INFTY} \cup {F[a].start : a \in MembersOfType(F, g, {GFF_CDS_TYPE})})

cds_end(F, g) ==
    Max({-1} \cup {F[a].end : a \in MembersOfType(F, g, {GFF_CDS_TYPE})})

trans_start(F, g) ==
    Min({INFTY} \cup {F[a].start :
            a \in MembersOfType(F, g, {GFF_CDS_TYPE, GFF_UTR5_TYPE, GFF_UTR3_TYPE})})

trans_end(F, g) ==
    Max({-1} \cup {F[a].end :
            a \in MembersOfType(F, g, {GFF_CDS_TYPE, GFF_UTR5_TYPE, GFF_UTR3_TYPE})})

(* strand of the group: that of its first member, '\0' for no member *)
strand(F, g) == IF g.features = <<>> THEN "" ELSE F[g.features[1]].strand

(* the exons of a group, in member order *)
ExonsOf(F, g) == SelectSeq(g.features, LAMBDA a : F[a].feature = GFF_EXON_TYPE)

(* a variant of LowerUtr that keeps the exon's end *)
LowerUtr_Unclipped(f, cs, str) ==
    [f EXCEPT !.feature = IF str = "-" THEN GFF_UTR3_TYPE ELSE GFF_UTR5_TYPE]

(* lines 1102-1106: the copy of exon f made for its part before the CDS *)
LowerUtr(f, cs, str) ==
    [f EXCEPT !.end = IF f.end >= cs THEN cs - 1 ELSE @,
              !.feature = IF str = "-" THEN GFF_UTR3_TYPE ELSE GFF_UTR5_TYPE]

(* lines 1110-1114: the copy of exon f made for its part after the CDS *)
UpperUtr(f, ce, str) ==
    [f EXCEPT !.start = IF f.start <= ce THEN ce + 1 ELSE @,
              !.feature = IF str = "-" THEN GFF_UTR5_TYPE ELSE GFF_UTR3_TYPE]

UtrsOfExon(S, gi, f, cs, ce, str) ==
    LET S1 == IF f.start < cs THEN PushDerived(S, gi, LowerUtr(f, cs, str)) ELSE S
    IN  IF f.end > ce THEN PushDerived(S1, gi, UpperUtr(f, ce, str)) ELSE S1

RECURSIVE UtrExonLoop(_, _, _, _, _, _)
UtrExonLoop(S, gi, exons, cs, ce, str) ==
    IF exons = <<>> THEN S
    ELSE UtrExonLoop(UtrsOfExon(S, gi, S.feat[Head(exons)], cs, ce, str),
                     gi, Tail(exons), cs, ce, str)

UtrGroup(S, gi) ==
    LET g == S.groups.val[gi]
    IN  IF cds_end(S.feat, g) > 0
        THEN UtrExonLoop(S, gi, ExonsOf(S.feat, g), cds_start(S.feat, g),
                         cds_end(S.feat, g), strand(S.feat, g))
        ELSE S

RECURSIVE UtrGroupLoop(_, _)
UtrGroupLoop(S, gi) ==
    IF gi > Len(S.groups.val) THEN S ELSE UtrGroupLoop(UtrGroup(S, gi), gi + 1)

gff_create_utrs(S) == UtrGroupLoop(S, 1)

(* a variant of IntronBetween that runs from exon1's end to exon2's start *)
IntronBetween_Touching(exon1, exon2) ==
    [exon1 EXCEPT !.start = exon1.end, !.end = exon2.start,
                  !.feature = GFF_INTRON_TYPE]

(* lines 1148-1151: the copy of exon1 turned into the intron up to exon2 *)
IntronBetween(exon1, exon2) ==
    [exon1 EXCEPT !.start = exon1.end + 1, !.end = exon2.start - 1,
                  !.feature = GFF_INTRON_TYPE]

RECURSIVE IntronLoop(_, _, _, _)
IntronLoop(S, gi, exons, j) ==
    IF j >= Len(exons) THEN S
    ELSE IntronLoop(PushDerived(S, gi, IntronBetween(S.feat[exons[j]],
                                                      S.feat[exons[j + 1]])),
                    gi, exons, j + 1)

(* one outcome per order lst_qsort may leave equal exons in *)
IntronGroup(S, gi) ==
    {IntronLoop(S, gi, exons, 1) :
        exons \in QsortFeatures(S.feat, ExonsOf(S.feat, S.groups.val[gi]))}

RECURSIVE IntronGroupLoop(_, _, _)
IntronGroupLoop(SS, gi, n) ==
    IF gi > n THEN SS
    ELSE IntronGroupLoop(UNION {IntronGroup(S, gi) : S \in SS}, gi + 1, n)

gff_create_introns(S) == IntronGroupLoop({S}, 1, Len(S.groups.val))

(* the % of C on ints: the remainder has the sign of the dividend *)
CRem(x, m) == IF x >= 0 THEN x % m ELSE -((-x) % m)

IsCDS(f) == f.feature = GFF_CDS_TYPE

IsUTR(f) == f.feature \in {GFF_UTR5_TYPE, GFF_UTR3_TYPE}

(* lines 1197-1209: the codon at the start of the CDS *)
SignalAtStart(S, gi, a, cs, str) ==
    LET f == S.feat[a]
    IN  IF f.start # cs THEN S
        ELSE IF str = "-"
        THEN LET f2 == [f EXCEPT !.start = @ + 3]
             IN  PushDerived([S EXCEPT !.feat[a] = f2], gi,
                             [f EXCEPT !.end = f.start + 2, !.feature = GFF_STOP_TYPE,
                                       !.frame = CRem(f2.frame + f2.end - f2.start + 1, 3)])
        ELSE PushDerived(S, gi, [f EXCEPT !.end = f.start + 2,
                                          !.feature = GFF_START_TYPE])

(* a variant of SignalAtEnd that leaves the CDS as long as it was *)
SignalAtEnd_NoTrim(S, gi, a, ce, str) ==
    LET f == S.feat[a]
    IN  IF f.end # ce THEN S
        ELSE PushDerived(S, gi, [f EXCEPT !.start = f.end - 2,
                                          !.feature = IF str = "-" THEN GFF_START_TYPE
                                                      ELSE GFF_STOP_TYPE])

(* lines 1210-1222: the codon at the end of the CDS *)
SignalAtEnd(S, gi, a, ce, str) ==
    LET f == S.feat[a]
    IN  IF f.end # ce THEN S
        ELSE IF str = "-"
        THEN PushDerived(S, gi, [f EXCEPT !.start = f.end - 2,
                                          !.feature = GFF_START_TYPE])
        ELSE LET f2 == [f EXCEPT !.end = @ - 3]
             IN  PushDerived([S EXCEPT !.feat[a] = f2], gi,
                             [f EXCEPT !.start = f.end - 2, !.feature = GFF_STOP_TYPE,
                                       !.frame = CRem(f2.frame + f2.end - f2.start + 1, 3)])

(* a variant of SpliceBefore that takes a start codon for an exon as well *)
SpliceBefore_AlsoCodons(S, gi, a, cs, ce, ts, str) ==
    LET f == S.feat[a]
    IN  IF \/ (IsCDS(f) \/ f.feature = GFF_START_TYPE) /\ f.start # cs /\ f.start # cs + 3
           \/ IsUTR(f) /\ f.start # ts /\ f.start # ce + 1
        THEN PushDerived(S, gi,
                [f EXCEPT !.end = f.start - 1, !.start = f.start - 2,
                          !.feature = IF str = "-" THEN GFF_SPLICE5_TYPE
                                      ELSE GFF_SPLICE3_TYPE])
        ELSE S

(* lines 1225-1238: the splice site before an exon *)
SpliceBefore(S, gi, a, cs, ce, ts, str) ==
    LET f == S.feat[a]
    IN  IF \/ IsCDS(f) /\ f.start # cs /\ f.start # cs + 3
           \/ IsUTR(f) /\ f.start # ts /\ f.start # ce + 1
        THEN PushDerived(S, gi,
                [f EXCEPT !.end = f.start - 1, !.start = f.start - 2,
                          !.feature = IF str = "-" THEN GFF_SPLICE5_TYPE
                                      ELSE GFF_SPLICE3_TYPE])
        ELSE S

(* lines 1240-1253: the splice site after an exon *)
SpliceAfter(S, gi, a, cs, ce, te, str) ==
    LET f == S.feat[a]
    IN  IF \/ IsCDS(f) /\ f.end # ce /\ f.end # ce - 3
           \/ IsUTR(f) /\ f.end # cs - 1 /\ f.end # te
        THEN PushDerived(S, gi,
                [f EXCEPT !.start = f.end + 1, !.end = f.end + 2,
                          !.feature = IF str = "-" THEN GFF_SPLICE3_TYPE
                                      ELSE GFF_SPLICE5_TYPE])
        ELSE S

(* lines 1191-1254: the body of the loop for the member at address a *)
SignalsOfMember(S, gi, a, cs, ce, ts, te, str) ==
    LET f == S.feat[a]
        S2 == IF IsCDS(f) /\ f.end - f.start + 1 >= 3
              THEN SignalAtEnd(SignalAtStart(S, gi, a, cs, str), gi, a, ce, str)
              ELSE S
    IN  SpliceAfter(SpliceBefore(S2, gi, a, cs, ce, ts, str), gi, a, cs, ce, te, str)

(* the loop runs to the end of the member list as it grows *)
RECURSIVE SignalMemberLoop(_, _, _, _, _, _, _, _)
SignalMemberLoop(S, gi, j, cs, ce, ts, te, str) ==
    IF j > Len(S.groups.val[gi].features) THEN S
    ELSE SignalMemberLoop(
            SignalsOfMember(S, gi, S.groups.val[gi].features[j], cs, ce, ts, te, str),
            gi, j + 1, cs, ce, ts, te, str)

SignalGroup(S, gi) ==
    LET g == S.groups.val[gi]
    IN  SignalMemberLoop(S, gi, 1, cds_start(S.feat, g), cds_end(S.feat, g),
                         trans_start(S.feat, g), trans_end(S.feat, g),
                         strand(S.feat, g))

RECURSIVE SignalGroupLoop(_, _)
SignalGroupLoop(S, gi) ==
    IF gi > Len(S.groups.val) THEN S ELSE SignalGroupLoop(SignalGroup(S, gi), gi + 1)

gff_create_signals(S) == SignalGroupLoop(S, 1)

-----------------------------------------------------------------------------
(* gff_fix_start_stop, gff_absorb_helpers, gff_add_gene_id, gff_filter_by_group *)

(* lines 933-937: the last member of the type, as start and stop end up *)
LastOfType(F, g, type) ==
    LET js == {j \in 1..Len(g.features) : F[g.features[j]].feature = type}
    IN  IF js = {} THEN NULL ELSE Ptr(g.features[Max(js)])

(* a variant of StopAdjusted without the tests against inverting the interval *)
StopAdjusted_Unguarded(f, stop) ==
    IF f.strand = "+" /\ f.end = stop.end THEN [f EXCEPT !.end = stop.start - 1]
    ELSE IF f.strand = "-" /\ f.start = stop.start THEN [f EXCEPT !.start = stop.end + 1]
    ELSE f

(* lines 943-948: CDS f adjusted to the start codon *)
StartAdjusted(f, start) ==
    IF f.strand = "+" /\ f.start = start.end + 1 THEN [f EXCEPT !.start = start.start]
    ELSE IF f.strand = "-" /\ f.end = start.start - 1 THEN [f EXCEPT !.end = start.end]
    ELSE f

(* lines 949-958: CDS f adjusted to the stop codon *)
StopAdjusted(f, stop) ==
    IF f.strand = "+" /\ f.end = stop.end /\ stop.start - 1 >= f.start
    THEN [f EXCEPT !.end = stop.start - 1]
    ELSE IF f.strand = "-" /\ f.start = stop.start /\ stop.end + 1 <= f.end
    THEN [f EXCEPT !.start = stop.end + 1]
    ELSE f

(* lines 940-960: the members of a group in turn, start and stop being the *)
(* addresses of the group's codons, if any                                 *)
RECURSIVE FixMemberLoop(_, _, _, _)
FixMemberLoop(F, members, start, stop) ==
    IF members = <<>> THEN F
    ELSE LET a == Head(members)
             f1 == IF start # NULL THEN StartAdjusted(F[a], F[start.val]) ELSE F[a]
             f2 == IF stop # NULL THEN StopAdjusted(f1, F[stop.val]) ELSE f1
         IN  FixMemberLoop(IF F[a].feature = GFF_CDS_TYPE THEN [F EXCEPT ![a] = f2] ELSE F,
                           Tail(members), start, stop)

RECURSIVE FixGroupLoop(_, _)
FixGroupLoop(F, gs) ==
    IF gs = <<>> THEN F
    ELSE LET g == Head(gs)
             start == LastOfType(F, g, GFF_START_TYPE)
             stop == LastOfType(F, g, GFF_STOP_TYPE)
         IN  FixGroupLoop(IF start # NULL \/ stop # NULL
                          THEN FixMemberLoop(F, g.features, start, stop) ELSE F,
                          Tail(gs))

gff_fix_start_stop(S) == [S EXCEPT !.feat = FixGroupLoop(S.feat, S.groups.val)]

(* a variant of AbsorbLeft that adds the helper's length to the frame *)
RECURSIVE AbsorbLeft_AddsLength(_, _, _, _, _)
AbsorbLeft_AddsLength(F, g, a, k, helper_types) ==
    IF k < 1 THEN F
    ELSE LET f == F[a]
             prev == F[g.features[k]]
         IN  IF prev.feature \in helper_types /\ prev.end = f.start - 1
             THEN AbsorbLeft_AddsLength(
                    [F EXCEPT ![a].start = prev.start,
                              ![a].frame =
                                  IF f.strand = "+" /\ f.frame # GFF_NULL_FRAME
                                  THEN CRem(f.frame + (prev.end - prev.start + 1), 3)
                                  ELSE @],
                    g, a, k - 1, helper_types)
             ELSE F

(* lines 983-998: feature a extended to the left over the helpers before it *)
RECURSIVE AbsorbLeft(_, _, _, _, _)
AbsorbLeft(F, g, a, k, helper_types) ==
    IF k < 1 THEN F
    ELSE LET f == F[a]
             prev == F[g.features[k]]
         IN  IF prev.feature \in helper_types /\ prev.end = f.start - 1
             THEN AbsorbLeft(
                    [F EXCEPT ![a].start = prev.start,
                              ![a].frame =
                                  IF f.strand = "+" /\ f.frame # GFF_NULL_FRAME
                                  THEN CRem(f.frame + 2 * (prev.end - prev.start + 1), 3)
                                  ELSE @],
                    g, a, k - 1, helper_types)
             ELSE F

(* lines 1000-1009: feature a extended to the right over the helpers after it *)
RECURSIVE AbsorbRight(_, _, _, _, _)
AbsorbRight(F, g, a, k, helper_types) ==
    IF k > Len(g.features) THEN F
    ELSE LET f == F[a]
             next == F[g.features[k]]
         IN  IF next.feature \in helper_types /\ next.start = f.end + 1
             THEN AbsorbRight(
                    [F EXCEPT ![a].end = next.end,
                              ![a].frame =
                                  IF f.strand = "-" /\ f.frame # GFF_NULL_FRAME
                                  THEN CRem(f.frame + 2 * (next.end - next.start + 1), 3)
                                  ELSE @],
                    g, a, k + 1, helper_types)
             ELSE F

RECURSIVE AbsorbMemberLoop(_, _, _, _, _)
AbsorbMemberLoop(F, g, j, primary_types, helper_types) ==
    IF j > Len(g.features) THEN F
    ELSE LET a == g.features[j]
         IN  AbsorbMemberLoop(
                IF F[a].feature \in primary_types
                THEN AbsorbRight(AbsorbLeft(F, g, a, j - 1, helper_types),
                                 g, a, j + 1, helper_types)
                ELSE F,
                g, j + 1, primary_types, helper_types)

RECURSIVE AbsorbGroupLoop(_, _, _, _)
AbsorbGroupLoop(F, gs, primary_types, helper_types) ==
    IF gs = <<>> THEN F
    ELSE AbsorbGroupLoop(AbsorbMemberLoop(F, Head(gs), 1, primary_types, helper_types),
                         Tail(gs), primary_types, helper_types)

(* a variant of gff_absorb_helpers that drops the helpers from the flat list *)
gff_absorb_helpers_Dropping(S, primary_types, helper_types) ==
    [S EXCEPT !.feat = AbsorbGroupLoop(S.feat, S.groups.val, primary_types, helper_types),
              !.features = SelectSeq(@, LAMBDA a : S.feat[a].feature \notin helper_types)]

gff_absorb_helpers(S, primary_types, helper_types) ==
    [S EXCEPT !.feat = AbsorbGroupLoop(S.feat, S.groups.val, primary_types, helper_types)]

(* line 1024: gene_id "name" ; attribute *)
GeneIdAttribute(name, attribute) ==
    <<"g", "e", "n", "e", "_", "i", "d", " ", "\"">> \o name
        \o <<"\"", " ", ";", " ">> \o attribute

RECURSIVE GeneIdMemberLoop(_, _, _)
GeneIdMemberLoop(F, name, members) ==
    IF members = <<>> THEN F
    ELSE GeneIdMemberLoop(
            [F EXCEPT ![Head(members)].attribute = GeneIdAttribute(name, @)],
            name, Tail(members))

RECURSIVE GeneIdGroupLoop(_, _)
GeneIdGroupLoop(F, gs) ==
    IF gs = <<>> THEN F
    ELSE GeneIdGroupLoop(GeneIdMemberLoop(F, Head(gs).name, Head(gs).features), Tail(gs))

gff_add_gene_id(S) == [S EXCEPT !.feat = GeneIdGroupLoop(S.feat, S.groups.val)]

(* lines 1044-1055: the members of the groups named in `names` kept, in group *)
(* order, the others freed                                                    *)
RECURSIVE FilterGroupLoop(_, _, _)
FilterGroupLoop(st, gs, names) ==
    IF gs = <<>> THEN st
    ELSE FilterGroupLoop(
            IF Head(gs).name \in names
            THEN [st EXCEPT !.keepers = @ \o Head(gs).features]
            ELSE [st EXCEPT !.S = FreeAll(@, Head(gs).features)],
            Tail(gs), names)

gff_filter_by_group(S, names) ==
    LET st == FilterGroupLoop([S |-> S, keepers |-> <<>>], S.groups.val, names)
    IN  gff_group([st.S EXCEPT !.features = st.keepers], S.group_tag.val)

-----------------------------------------------------------------------------
(* gff_read_set on one line of columns, gff_print_feat *)

GFF_MIN_NCOLS == 5

Digits == <<"0", "1", "2", "3", "4", "5", "6", "7", "8", "9">>

IsDigit(c) == \E d \in 1..Len(Digits) : Digits[d] = c

DigitValue(c) == (CHOOSE d \in 1..Len(Digits) : Digits[d] = c) - 1

(* str_as_int on an unsigned decimal: the number, or nothing for other text *)
RECURSIVE str_as_int(_)
str_as_int(str) ==
    IF str = <<>> \/ \E i \in 1..Len(str) : ~IsDigit(str[i]) THEN NULL
    ELSE IF Len(str) = 1 THEN Ptr(DigitValue(str[1]))
    ELSE Ptr(10 * str_as_int(SubSeq(str, 1, Len(str) - 1)).val + DigitValue(str[Len(str)]))

(* sprintf "%d" *)
RECURSIVE IntStr(_)
IntStr(n) ==
    IF n < 0 THEN <<"-">> \o IntStr(-n)
    ELSE IF n < 10 THEN <<Digits[n + 1]>>
    ELSE IntStr(n \div 10) \o <<Digits[(n % 10) + 1]>>

(* line 179: the frame of the line converted to the internal representation *)
InternalFrame(frame) == (3 - frame) % 3

(* a variant of ExternalFrame that prints the frame as it is stored *)
ExternalFrame_Raw(frame) == frame

(* line 369: the stored frame converted to the GFF representation *)
ExternalFrame(frame) == (3 - frame) % 3

(* lines 133-191: the columns l of one line turned into a feature; nothing *)
(* where the reader dies                                                   *)
ReadColumns(l) ==
    LET start == str_as_int(l[4])
        end == str_as_int(l[5])
        has_score == Len(l) > 5 /\ l[6] # <<".">>
        score == IF has_score THEN str_as_int(l[6]) ELSE Ptr(0)
        strand_ok == Len(l) > 6 =>
                        (Len(l[7]) = 1 /\ l[7][1] \in {"+", "-", "."})
        has_frame == Len(l) > 7 /\ l[8] # <<".">>
        frame == IF has_frame THEN str_as_int(l[8]) ELSE Ptr(GFF_NULL_FRAME)
    IN  IF \/ Len(l) < GFF_MIN_NCOLS
           \/ start = NULL
           \/ end = NULL
           \/ score = NULL
           \/ ~strand_ok
           \/ frame = NULL
           \/ (has_frame /\ (frame.val < 0 \/ frame.val > 2))
        THEN NULL
        ELSE Ptr(gff_new_feature(
                    l[3], start.val, end.val, score.val,
                    IF Len(l) > 6 THEN l[7][1] ELSE ".",
                    IF has_frame THEN InternalFrame(frame.val) ELSE GFF_NULL_FRAME,
                    IF Len(l) > 8 THEN l[9] ELSE <<>>,
                    ~has_score))

(* lines 362-378: the columns gff_print_feat writes; %.3f of a whole number *)
gff_print_feat(f) ==
    <<f.seqname, f.source, f.feature, IntStr(f.start), IntStr(f.end),
      IF f.score_is_null THEN <<".">> ELSE IntStr(f.score) \o <<".", "0", "0", "0">>,
      <<f.strand>>,
      IF f.frame = GFF_NULL_FRAME THEN <<".">> ELSE IntStr(ExternalFrame(f.frame)),
      f.attribute>>

-----------------------------------------------------------------------------
(* Bounds of the model and the inputs drawn within them *)

MaxCoord == 3

MaxFeats == 3

MaxScore == 2

MaxOps == 1

MaxDerive == 2

MaxMerge == 2

MaxIO == 2

MaxLines == 1

MaxSignalCoord == 7

MaxReverse == 2

(* the attribute tag the sets are grouped by, and attributes that carry it *)
TAG == <<"i", "d">>

Letters == <<"a", "b", "c", "d", "e", "f">>

AttrOf(k) == <<"i", "d", " ", "\"", Letters[k], "\"">>

Intervals == {iv \in (1..MaxCoord) \X (1..MaxCoord) : iv[1] <= iv[2]}

(* score, score_is_null as the reader sets them: "." or a number *)
Scores == {<<0, TRUE>>} \cup {<<v, FALSE>> : v \in 1..MaxScore}

(* assignments of n features to groups, one per partition of the features *)
Partitions(n) ==
    {g \in [1..n -> 1..n] :
        \A i \in 1..n : g[i] <= 1 + Max({0} \cup {g[j] : j \in 1..(i - 1)})}

(* a set as gff_read_set returns it: no groups, nothing freed *)
NewSet(F) ==
    [feat |-> F, features |-> [i \in 1..Len(F) |-> i], groups |-> NULL,
     group_tag |-> NULL, freed |-> {}]

Start(S) ==
    /\ feat = S.feat
    /\ features = S.features
    /\ groups = S.groups
    /\ group_tag = S.group_tag
    /\ freed = S.freed
    /\ last = [op |-> "init", arg |-> <<>>]
    /\ pre = S
    /\ log = <<>>
    /\ nops = 0
    /\ died = FALSE

(* the operation op(arg) took the set to S2 *)
Step(op, arg, S2, lg) ==
    /\ feat' = S2.feat
    /\ features' = S2.features
    /\ groups' = S2.groups
    /\ group_tag' = S2.group_tag
    /\ freed' = S2.freed
    /\ last' = [op |-> op, arg |-> arg]
    /\ pre' = Cur
    /\ log' = lg
    /\ nops' = nops + 1
    /\ died' = FALSE

(* misc.c, die: the message is printed and the process exits, the set as it is *)
die(op, arg) ==
    /\ UNCHANGED <<feat, features, groups, group_tag, freed>>
    /\ last' = [op |-> op, arg |-> arg]
    /\ pre' = Cur
    /\ log' = <<>>
    /\ nops' = nops + 1
    /\ died' = TRUE

Do(op, arg, S2, lg) == ~died /\ nops < MaxOps /\ Step(op, arg, S2, lg)

(* a variant of DoDie that warns and returns to the caller *)
DoDie_Returns(op, arg) == Do(op, arg, Cur, <<>>)

(* the operation called die before it returned *)
DoDie(op, arg) == ~died /\ nops < MaxOps /\ die(op, arg)

(* the same for the operations that derive features, which are run in a row *)
DoDerive(op, S2) == ~died /\ nops < MaxDerive /\ Step(op, <<>>, S2, <<>>)

(* the same for the mergers, run in a row; the log keeps the operation before *)
DoMerge(op, arg, S2) == ~died /\ nops < MaxMerge /\ Step(op, arg, S2, <<last.op>>)

(* the same for reading a line and printing a feature *)
DoIO(op, arg, S2, lg) == ~died /\ nops < MaxIO /\ Step(op, arg, S2, lg)

DieIO(op, arg) == ~died /\ nops < MaxIO /\ die(op, arg)

-----------------------------------------------------------------------------
(* Operations *)

Sort == \E S2 \in gff_sort(Cur) : Do("gff_sort", <<>>, S2, <<>>)

RemoveOverlaps ==
    IF groups = NULL THEN DoDie("gff_remove_overlaps", <<>>)
    ELSE Do("gff_remove_overlaps", <<>>, gff_remove_overlaps(Cur), OverlapRun(Cur).log)

Group == Do("gff_group", TAG, gff_group(Cur, TAG), <<>>)

GroupByFeature == Do("gff_group_by_feature", <<>>, gff_group_by_feature(Cur), <<>>)

Ungroup == Do("gff_ungroup", <<>>, gff_ungroup(Cur), <<>>)

FilterByType ==
    \E types \in {{GFF_CDS_TYPE}}, exclude \in BOOLEAN :
        Do("gff_filter_by_type", <<types, exclude>>,
           gff_filter_by_type(Cur, types, exclude), <<>>)

ClearSet == Do("gff_clear_set", <<>>, gff_clear_set(Cur), <<>>)

AddOffset ==
    \E offset \in {-1, 1}, maxCoord \in {0, MaxCoord - 1} :
        Do("gff_add_offset", <<offset, maxCoord>>,
           gff_add_offset(Cur, offset, maxCoord), <<>>)

ReverseCompl ==
    Do("gff_reverse_compl", <<1, MaxCoord>>, gff_reverse_compl(Cur, 1, MaxCoord), <<>>)

Flatten == \E S2 \in gff_flatten(Cur) : Do("gff_flatten", <<>>, S2, <<>>)

FlattenKeepGroups ==
    \E S2 \in gff_flatten_sub(Cur, TRUE) : Do("gff_flatten_sub", TRUE, S2, <<>>)

FlattenWithinGroups ==
    Do("gff_flatten_within_groups", <<>>, gff_flatten_within_groups(Cur), <<>>)

-----------------------------------------------------------------------------
(* Overlap resolution: scored transcripts, one group per attribute value *)

OverlapFeature(iv, sc, k) ==
    gff_new_feature(GFF_CDS_TYPE, iv[1], iv[2], sc[1], "+", GFF_NULL_FRAME,
                    AttrOf(k), sc[2])

(* section 8 of the specification: A=[1,10] score 5, B=[5,15] score 3, *)
(* C=[20,25] score 1                                                   *)
ExampleABC ==
    <<OverlapFeature(<<1, 10>>, <<5, FALSE>>, 1),
      OverlapFeature(<<5, 15>>, <<3, FALSE>>, 2),
      OverlapFeature(<<20, 25>>, <<1, FALSE>>, 3)>>

InitOverlap ==
    \/ \E n \in 1..MaxFeats :
         \E iv \in [1..n -> Intervals], sc \in [1..n -> Scores], g \in Partitions(n) :
            Start(gff_group(NewSet([i \in 1..n |-> OverlapFeature(iv[i], sc[i], g[i])]),
                            TAG))
    \/ Start(gff_group(NewSet(ExampleABC), TAG))

NextOverlap == Sort \/ RemoveOverlaps

SpecOverlap == InitOverlap /\ [][NextOverlap]_vars

-----------------------------------------------------------------------------
(* The life of a set: read, then grouped or not, then edited *)

Types == {GFF_CDS_TYPE, GFF_EXON_TYPE}

(* a feature of the given type in group k; CDS lines carry a score *)
PlainFeature(iv, type, k) ==
    gff_new_feature(type, iv[1], iv[2], IF type = GFF_CDS_TYPE THEN 1 ELSE 0, "+",
                    GFF_NULL_FRAME, AttrOf(k), type # GFF_CDS_TYPE)

Grouped(S, mode) ==
    IF mode = "tag" THEN gff_group(S, TAG)
    ELSE IF mode = "feature" THEN gff_group_by_feature(S) ELSE S

Init ==
    \E n \in 1..MaxFeats :
        \E iv \in [1..n -> Intervals], ty \in [1..n -> Types], g \in Partitions(n),
           mode \in {"none", "tag", "feature"} :
            Start(Grouped(NewSet([i \in 1..n |-> PlainFeature(iv[i], ty[i], g[i])]), mode))

Next ==
    \/ Group
    \/ GroupByFeature
    \/ Ungroup
    \/ Sort
    \/ FilterByType
    \/ ClearSet
    \/ AddOffset
    \/ ReverseCompl
    \/ Flatten
    \/ FlattenKeepGroups
    \/ FlattenWithinGroups

Spec == Init /\ [][Next]_vars

-----------------------------------------------------------------------------
(* Grouping: attributes as they come in files *)

QUOTE == "\""

(* id "a" / id a; / id "b" / id "" / id / id followed by blanks only /  *)
(* another tag / two id tags / the empty attribute                      *)
GroupAttrs ==
    {TAG \o <<" ", QUOTE, "a", QUOTE>>,
     TAG \o <<" ", "a", ";">>,
     TAG \o <<" ", QUOTE, "b", QUOTE>>,
     TAG \o <<" ", QUOTE, QUOTE>>,
     TAG,
     TAG \o <<" ", " ">>,
     <<"x", " ", QUOTE, "a", QUOTE>>,
     TAG \o <<" ", "a", " ">> \o TAG \o <<" ", "b">>,
     <<>>}

GroupFeature(i, type, attr) ==
    gff_new_feature(type, i, i, 0, "+", GFF_NULL_FRAME, attr, TRUE)

InitGroup ==
    \E n \in 1..MaxFeats :
        \E ty \in [1..n -> Types], at \in [1..n -> GroupAttrs] :
            Start(NewSet([i \in 1..n |-> GroupFeature(i, ty[i], at[i])]))

NextGroup == Group \/ GroupByFeature

SpecGroup == InitGroup /\ [][NextGroup]_vars

-----------------------------------------------------------------------------
(* Derived features: transcripts of CDS and exon lines on either strand *)

CreateUtrs ==
    IF groups = NULL THEN DoDie("gff_create_utrs", <<>>)
    ELSE DoDerive("gff_create_utrs", gff_create_utrs(Cur))

CreateIntrons ==
    IF groups = NULL THEN DoDie("gff_create_introns", <<>>)
    ELSE \E S2 \in gff_create_introns(Cur) : DoDerive("gff_create_introns", S2)

CreateSignals ==
    IF groups = NULL THEN DoDie("gff_create_signals", <<>>)
    ELSE DoDerive("gff_create_signals", gff_create_signals(Cur))

Strands == {"+", "-"}

TranscriptFeature(iv, type, str, k) ==
    gff_new_feature(type, iv[1], iv[2], 0, str, GFF_NULL_FRAME, AttrOf(k), TRUE)

(* section 8 of the specification, scaled to the coordinates of the model: *)
(* a '+' group of one exon over the whole range and one CDS inside it      *)
ExampleUTR ==
    <<TranscriptFeature(<<1, MaxCoord>>, GFF_EXON_TYPE, "+", 1),
      TranscriptFeature(<<2, MaxCoord - 1>>, GFF_CDS_TYPE, "+", 1)>>

InitDerive ==
    \/ \E n \in 1..MaxFeats :
         \E iv \in [1..n -> Intervals], ty \in [1..n -> Types],
            st \in [1..n -> Strands], g \in Partitions(n) :
            Start(gff_group(
                NewSet([i \in 1..n |-> TranscriptFeature(iv[i], ty[i], st[i], g[i])]),
                TAG))
    \/ Start(gff_group(NewSet(ExampleUTR), TAG))

NextDerive == CreateUtrs \/ CreateIntrons \/ CreateSignals

SpecDerive == InitDerive /\ [][NextDerive]_vars

-----------------------------------------------------------------------------
(* Merging: sets whose feature list is in (start, end) order, grouped or not *)

MergeAll == \E S2 \in gff_flatten(Cur) : DoMerge("gff_flatten", <<>>, S2)

MergeKeepGroups ==
    \E S2 \in gff_flatten_sub(Cur, TRUE) : DoMerge("gff_flatten_sub", TRUE, S2)

MergeWithinGroups ==
    DoMerge("gff_flatten_within_groups", <<>>, gff_flatten_within_groups(Cur))

(* the list F of records is ascending for gff_feature_comparator *)
SortedFeatures(F) ==
    \A i \in 1..(Len(F) - 1) : gff_feature_comparator(F[i], F[i + 1]) <= 0

InitMerge ==
    \E n \in 1..MaxFeats :
        \E iv \in [1..n -> Intervals], ty \in [1..n -> Types], g \in Partitions(n),
           mode \in {"none", "tag"} :
            LET F == [i \in 1..n |-> PlainFeature(iv[i], ty[i], g[i])]
            IN  SortedFeatures(F) /\ Start(Grouped(NewSet(F), mode))

NextMerge == MergeAll \/ MergeKeepGroups \/ MergeWithinGroups

SpecMerge == InitMerge /\ [][NextMerge]_vars

-----------------------------------------------------------------------------
(* Reading and writing: lines of five to nine columns, good and bad *)

(* the text of columns 4 to 8: numbers within the coordinates of the model, *)
(* the symbols of GFF, and text the reader rejects                          *)
NumberFields == {IntStr(v) : v \in 0..MaxCoord} \cup {<<"x">>}

ScoreFields == {<<".">>, <<"1">>, <<"x">>}

StrandFields == {<<"+">>, <<"-">>, <<".">>, <<"x">>}

FrameFields == {<<".">>, <<"0">>, <<"1">>, <<"2">>, <<"3">>, <<"x">>}

Line(ncols, start, end, score, str, frame) ==
    SubSeq(<<<<"c">>, <<"s">>, GFF_CDS_TYPE, start, end, score, str, frame, AttrOf(1)>>,
           1, ncols)

(* one more line read into the set: the input line is kept in the log *)
ReadLine ==
    /\ ~died
    /\ Len(features) < MaxLines
    /\ \E ncols \in 4..9, start \in NumberFields, end \in NumberFields,
       score \in ScoreFields, str \in StrandFields, frame \in FrameFields :
        /\ ncols < 6 => score = <<".">>
        /\ ncols < 7 => str = <<".">>
        /\ ncols < 8 => frame = <<".">>
        /\ LET l == Line(ncols, start, end, score, str, frame)
               f == ReadColumns(l)
           IN  IF f = NULL THEN DieIO("gff_read_set", l)
               ELSE DoIO("gff_read_set", l,
                         [Cur EXCEPT !.feat = Append(@, f.val),
                                     !.features = Append(@, Len(feat) + 1)],
                         Append(log, l))

(* a feature of the set printed: the columns written follow the call *)
PrintFeat ==
    \E i \in 1..Len(features) :
        DoIO("gff_print_feat", <<i, gff_print_feat(feat[features[i]])>>, Cur, log)

InitFrame == Start(NewSet(<<>>))

NextFrame == ReadLine \/ PrintFeat

SpecFrame == InitFrame /\ [][NextFrame]_vars

-----------------------------------------------------------------------------
(* Operations that require groups, on sets with and without them *)

FixStartStop ==
    IF groups = NULL THEN DoDie("gff_fix_start_stop", <<>>)
    ELSE Do("gff_fix_start_stop", <<>>, gff_fix_start_stop(Cur), <<>>)

AbsorbHelpers ==
    IF groups = NULL THEN DoDie("gff_absorb_helpers", <<>>)
    ELSE Do("gff_absorb_helpers", <<>>,
            gff_absorb_helpers(Cur, {GFF_CDS_TYPE}, {GFF_START_TYPE, GFF_STOP_TYPE}),
            <<>>)

AddGeneId ==
    IF groups = NULL THEN DoDie("gff_add_gene_id", <<>>)
    ELSE Do("gff_add_gene_id", <<>>, gff_add_gene_id(Cur), <<>>)

FilterByGroup ==
    \E names \in SUBSET {<<"a">>, GFF_CDS_TYPE} :
        IF groups = NULL THEN DoDie("gff_filter_by_group", names)
        ELSE Do("gff_filter_by_group", names, gff_filter_by_group(Cur, names), <<>>)

(* gff_group_idx(feats, f, &pos) for a feature of the heap or one, at the    *)
(* address after it, that the set never held; the call's result and pos are  *)
(* kept with the argument                                                    *)
GroupIdx ==
    \E a \in 1..(Len(feat) + 1) :
        IF groups = NULL THEN Do("gff_group_idx", <<a, -1, -1>>, Cur, <<>>)
        ELSE LET ij == gff_group_idx(Cur, a)
             IN  IF ij = <<0, 0>> THEN DoDie("gff_group_idx", <<a>>)
                 ELSE Do("gff_group_idx", <<a, ij[1] - 1, ij[2] - 1>>, Cur, <<>>)

InitAbort ==
    \E n \in 1..(MaxFeats - 1) :
        \E iv \in [1..n -> Intervals], ty \in [1..n -> Types], g \in Partitions(n),
           mode \in {"none", "tag", "feature"} :
            Start(Grouped(NewSet([i \in 1..n |-> PlainFeature(iv[i], ty[i], g[i])]), mode))

NextAbort ==
    \/ RemoveOverlaps
    \/ FixStartStop
    \/ AbsorbHelpers
    \/ AddGeneId
    \/ FilterByGroup
    \/ CreateUtrs
    \/ CreateIntrons
    \/ CreateSignals
    \/ GroupIdx

SpecAbort == InitAbort /\ [][NextAbort]_vars

-----------------------------------------------------------------------------
(* Codons: transcripts of CDS, start_codon and stop_codon lines *)

CodonTypes == {GFF_CDS_TYPE, GFF_START_TYPE, GFF_STOP_TYPE}

InitFix ==
    \E n \in 1..MaxFeats :
        \E iv \in [1..n -> Intervals], ty \in [1..n -> CodonTypes],
           st \in [1..n -> Strands], g \in Partitions(n) :
            Start(gff_group(
                NewSet([i \in 1..n |-> TranscriptFeature(iv[i], ty[i], st[i], g[i])]),
                TAG))

NextFix == FixStartStop

SpecFix == InitFix /\ [][NextFix]_vars

-----------------------------------------------------------------------------
(* gff_subset_range_overlap, gff_subset_range_overlap_sorted: windows of a set *)

gff_new_feature_copy(orig) ==
    gff_new_feature(orig.feature, orig.start, orig.end, orig.score, orig.strand,
                    orig.frame, orig.attribute, orig.score_is_null)

(* the test both functions keep a feature by *)
OverlapsRange(f, startcol, endcol) == f.start <= endcol /\ f.end >= startcol

(* a variant of PastRange that stops at a feature lying before the range *)
PastRange_Before(f, startcol, endcol) == f.end < startcol

(* the test the sorted search stops at, made on a feature that was not kept *)
PastRange(f, startcol, endcol) == f.start > endcol

(* the subset with one more copy: created at the first, pushed to after *)
PushCopy(st, i) ==
    LET S1 == Alloc(st.S, gff_new_feature_copy(st.S.feat[st.S.features[i + 1]]))
    IN  [st EXCEPT !.S = S1,
                   !.subset = IF st.subset = NULL THEN Ptr(<<Len(S1.feat)>>)
                              ELSE Ptr(Append(st.subset.val, Len(S1.feat)))]

(* the loop of gff_subset_range_overlap from index i, counted from 0 *)
RECURSIVE SubsetOverlapLoop(_, _, _, _)
SubsetOverlapLoop(st, i, startcol, endcol) ==
    IF i >= Len(st.S.features) THEN st
    ELSE IF OverlapsRange(st.S.feat[st.S.features[i + 1]], startcol, endcol)
         THEN SubsetOverlapLoop(PushCopy(st, i), i + 1, startcol, endcol)
         ELSE SubsetOverlapLoop(st, i + 1, startcol, endcol)

(* the set with the copies on its heap, and the subset: NULL or the copies *)
gff_subset_range_overlap(S, startcol, endcol) ==
    SubsetOverlapLoop([S |-> S, subset |-> NULL, startSearchIdx |-> 0], 0, startcol, endcol)

(* the loop of gff_subset_range_overlap_sorted from index i, counted from 0 *)
RECURSIVE SubsetOverlapSortedLoop(_, _, _, _)
SubsetOverlapSortedLoop(st, i, startcol, endcol) ==
    IF i >= Len(st.S.features) THEN st
    ELSE IF OverlapsRange(st.S.feat[st.S.features[i + 1]], startcol, endcol)
         THEN SubsetOverlapSortedLoop(
                  PushCopy(IF st.subset = NULL THEN [st EXCEPT !.startSearchIdx = i] ELSE st, i),
                  i + 1, startcol, endcol)
         ELSE IF PastRange(st.S.feat[st.S.features[i + 1]], startcol, endcol) THEN st
         ELSE SubsetOverlapSortedLoop(st, i + 1, startcol, endcol)

(* the same, and the caller's cursor as the call leaves it *)
gff_subset_range_overlap_sorted(S, startcol, endcol, startSearchIdx) ==
    SubsetOverlapSortedLoop([S |-> S, subset |-> NULL, startSearchIdx |-> startSearchIdx],
                            startSearchIdx, startcol, endcol)

(* the number of windows a caller asks for in a row *)
MaxQueries == 3

(* the caller's cursor: 0 before the first window, then what the call left *)
Cursor == IF last.op = "gff_subset_range_overlap_sorted" THEN last.arg[3] ELSE 0

(* one more window, its startcol not before the startcol of the last one; *)
(* the log keeps the cursor the call was given                            *)
SubsetRangeOverlapSorted ==
    /\ ~died
    /\ nops < MaxQueries
    /\ \E iv \in Intervals :
        /\ last.op = "gff_subset_range_overlap_sorted" => iv[1] >= last.arg[1]
        /\ LET r == gff_subset_range_overlap_sorted(Cur, iv[1], iv[2], Cursor)
           IN  Step("gff_subset_range_overlap_sorted",
                    <<iv[1], iv[2], r.startSearchIdx, r.subset>>, r.S, <<Cursor>>)

SortedByStart(F) == \A i \in 1..(Len(F) - 1) : F[i].start <= F[i + 1].start

InitSubset ==
    \E n \in 1..MaxFeats :
        \E iv \in [1..n -> Intervals] :
            LET F == [i \in 1..n |-> PlainFeature(iv[i], GFF_CDS_TYPE, i)]
            IN  SortedByStart(F) /\ Start(NewSet(F))

NextSubset == SubsetRangeOverlapSorted

SpecSubset == InitSubset /\ [][NextSubset]_vars

-----------------------------------------------------------------------------
(* Helpers: sorted transcripts of CDS with a frame, start codons and exons *)

PrimaryTypes == {GFF_CDS_TYPE}

HelperTypes == {GFF_START_TYPE, GFF_STOP_TYPE}

Frames == {GFF_NULL_FRAME, 0, 1, 2}

FramedFeatures ==
    {gff_new_feature(GFF_CDS_TYPE, iv[1], iv[2], 0, str, frame, AttrOf(1), TRUE) :
        iv \in Intervals, str \in Strands, frame \in Frames}
    \cup {TranscriptFeature(iv, ty, "+", 1) :
            iv \in Intervals, ty \in {GFF_START_TYPE, GFF_EXON_TYPE}}

InitAbsorb ==
    \E n \in 1..MaxFeats :
        \E fs \in [1..n -> FramedFeatures], g \in Partitions(n) :
            LET F == [i \in 1..n |-> [fs[i] EXCEPT !.attribute = AttrOf(g[i])]]
            IN  SortedFeatures(F) /\ Start(gff_group(NewSet(F), TAG))

NextAbsorb == AbsorbHelpers

SpecAbsorb == InitAbsorb /\ [][NextAbsorb]_vars

-----------------------------------------------------------------------------
(* Signals: transcripts of CDS and UTR features on a longer sequence *)

SignalIntervals ==
    {iv \in (1..MaxSignalCoord) \X (1..MaxSignalCoord) : iv[1] <= iv[2]}

SignalTypes == {GFF_CDS_TYPE, GFF_UTR5_TYPE, GFF_UTR3_TYPE}

SignalStrands == {"+", "-", "."}

(* one or two features in any order and grouping, or one transcript of three *)
(* features that follow one another                                          *)
InitSignals ==
    \/ \E n \in 1..2 :
         \E iv \in [1..n -> SignalIntervals], ty \in [1..n -> SignalTypes],
            str \in SignalStrands, g \in Partitions(n) :
            Start(gff_group(
                NewSet([i \in 1..n |-> TranscriptFeature(iv[i], ty[i], str, g[i])]),
                TAG))
    \/ \E iv \in [1..3 -> SignalIntervals], ty \in [1..3 -> SignalTypes],
          str \in SignalStrands :
            /\ iv[1][2] < iv[2][1]
            /\ iv[2][2] < iv[3][1]
            /\ Start(gff_group(
                NewSet([i \in 1..3 |-> TranscriptFeature(iv[i], ty[i], str, 1)]),
                TAG))

NextSignals == CreateSignals

SpecSignals == InitSignals /\ [][NextSignals]_vars

-----------------------------------------------------------------------------
(* Reverse complement: a feature list turned over, and turned over again *)

(* gff_reverse_compl on a range of the sequence; a second call takes the   *)
(* range of the first, and the log keeps the set as it was before the first *)
ReverseComplRange ==
    /\ ~died
    /\ nops < MaxReverse
    /\ \E r \in Intervals :
        /\ last.op = "gff_reverse_compl" => last.arg = <<r[1], r[2]>>
        /\ Step("gff_reverse_compl", <<r[1], r[2]>>, gff_reverse_compl(Cur, r[1], r[2]),
                IF nops = 0 THEN <<Cur>> ELSE log)

InitReverse ==
    \E n \in 1..MaxFeats :
        \E iv \in [1..n -> Intervals], st \in [1..n -> {"+", "-", "."}] :
            Start(NewSet([i \in 1..n |-> TranscriptFeature(iv[i], GFF_CDS_TYPE, st[i], i)]))

NextReverse == ReverseComplRange

SpecReverse == InitReverse /\ [][NextReverse]_vars

-----------------------------------------------------------------------------
(* Vocabulary of the properties *)

After(op) == last.op = op

Intersect(g, h) == g.start <= h.end /\ h.start <= g.end

(* groups in ascending (start, end) order, each with start <= end *)
AscendingGroups(gs) ==
    /\ \A i \in 1..Len(gs) : gs[i].start <= gs[i].end
    /\ \A i \in 1..(Len(gs) - 1) :
          \/ gs[i].start < gs[i + 1].start
          \/ gs[i].start = gs[i + 1].start /\ gs[i].end <= gs[i + 1].end

(* the sum of val[x] over the x in I *)
RECURSIVE SumOver(_, _)
SumOver(I, val) ==
    IF I = {} THEN 0
    ELSE LET x == CHOOSE y \in I : TRUE IN val[x] + SumOver(I \ {x}, val)

(* a group's comparison score as section 4.3 defines it *)
ComparisonScore(F, g) ==
    LET scored == {a \in Range(g.features) : ~F[a].score_is_null}
    IN  IF scored = {} THEN g.end - g.start + 1
        ELSE SumOver(scored, [a \in scored |-> F[a].score])

(* the groups, retained before candidate e.cand, that intersect it *)
Hit(e) ==
    {k \in Range(e.before) : Intersect(pre.groups.val[k], pre.groups.val[e.cand])}

HitScore(e) ==
    SumOver(Hit(e), [k \in Hit(e) |-> ComparisonScore(pre.feat, pre.groups.val[k])])

CandScore(e) == ComparisonScore(pre.feat, pre.groups.val[e.cand])

-----------------------------------------------------------------------------
(* C1: after gff_remove_overlaps on groups in ascending (start, end) order *)
(* with start <= end, no two retained groups intersect, and the retained   *)
(* groups are in ascending start order.                                    *)
C1_RetainedDisjoint ==
    (After("gff_remove_overlaps") /\ AscendingGroups(pre.groups.val)) =>
        LET gs == groups.val
        IN  /\ \A i, j \in 1..Len(gs) :
                  i # j => gs[i].end < gs[j].start \/ gs[j].end < gs[i].start
            /\ \A i \in 1..(Len(gs) - 1) : gs[i].start <= gs[i + 1].start

(* C1 witness: a sorted run in which an overlapping group was removed and *)
(* two groups remain                                                      *)
C1_Witness ==
    /\ After("gff_remove_overlaps")
    /\ AscendingGroups(pre.groups.val)
    /\ Len(pre.groups.val) = 3
    /\ Len(groups.val) = 2
    /\ \E i, j \in 1..3 : i # j /\ Intersect(pre.groups.val[i], pre.groups.val[j])

InOrder(a, b) == a.start < b.start \/ (a.start = b.start /\ a.end <= b.end)

(* the groups of the current index that hold address a *)
GroupsOf(a) == {i \in 1..Len(groups.val) : a \in Range(groups.val[i].features)}

(* C4 as stated: for every set, grouped or ungrouped, after gff_sort every *)
(* adjacent pair (a, b) of the flat feature list is in (start, end) order. *)
C4_FlatListInOrder ==
    After("gff_sort") =>
        \A i \in 1..(Len(features) - 1) : InOrder(feat[features[i]], feat[features[i + 1]])

(* C4 as amended: after gff_sort on an ungrouped set every adjacent pair of  *)
(* the flat list is in (start, end) order; on a grouped set every adjacent   *)
(* pair of the flat list whose records belong to the same group is.          *)
C4_InOrderWithinGroups ==
    After("gff_sort") =>
        \A i \in 1..(Len(features) - 1) :
            (groups = NULL \/ GroupsOf(features[i]) \cap GroupsOf(features[i + 1]) # {})
                => InOrder(feat[features[i]], feat[features[i + 1]])

(* C4 witness: a sort reordered a grouped set with two groups, one of them *)
(* with two members                                                        *)
C4_Witness ==
    /\ After("gff_sort")
    /\ groups # NULL
    /\ Len(groups.val) = 2
    /\ features # pre.features
    /\ \E i \in 1..(Len(features) - 1) :
          /\ GroupsOf(features[i]) = GroupsOf(features[i + 1])
          /\ feat[features[i]].start < feat[features[i + 1]].start

(* C7: gff_ungroup, and the ungroup at the start of gff_group and           *)
(* gff_group_by_feature, frees and alters no record: the feature list holds *)
(* the same records in the same order with the same fields; after           *)
(* gff_ungroup groups and group_tag are both absent.                        *)
C7_UngroupKeepsRecords ==
    /\ (After("gff_ungroup") \/ After("gff_group") \/ After("gff_group_by_feature")) =>
          /\ features = pre.features
          /\ feat = pre.feat
          /\ freed = pre.freed
    /\ After("gff_ungroup") => groups = NULL /\ group_tag = NULL

(* C7 witness: an index over three records was torn down *)
C7_Witness ==
    /\ After("gff_ungroup")
    /\ pre.groups # NULL
    /\ Len(pre.groups.val) >= 2
    /\ Len(features) = 3

(* the operations C8 lists *)
C8_Operations ==
    {"gff_filter_by_type", "gff_add_offset", "gff_clear_set", "gff_reverse_compl",
     "gff_flatten", "gff_flatten_sub", "gff_flatten_within_groups"}

(* C8: every listed operation that removed or reordered records of a grouped *)
(* set leaves the set with its grouping index dropped.                       *)
C8_IndexDropped ==
    (last.op \in C8_Operations /\ pre.groups # NULL /\ features # pre.features)
        => groups = NULL

(* places <<i, j>> of the index at which address a is listed *)
PlacesOf(a) ==
    {ij \in (1..Len(groups.val)) \X (1..MaxMembers(groups.val)) :
        /\ ij[2] <= Len(groups.val[ij[1]].features)
        /\ groups.val[ij[1]].features[ij[2]] = a}

(* the attribute carries no value for the tag: too short, or no match *)
NoValue(f, tag) == ~(Len(f.attribute) > Len(tag) /\ str_re_match(f.attribute, tag))

(* the string a record is grouped by *)
GroupingValue(f) ==
    IF After("gff_group") THEN TagValue(f, last.arg) ELSE f.feature

(* C6: right after gff_group(tag) or gff_group_by_feature the member lists  *)
(* partition the set: every record is listed once in exactly one group, two *)
(* records share a group iff their grouping values are equal strings, and   *)
(* the records without a value for the tag are in one group named "".       *)
C6_GroupsPartition ==
    (After("gff_group") \/ After("gff_group_by_feature")) =>
        /\ \A a \in Range(features) : Cardinality(PlacesOf(a)) = 1
        /\ \A i \in 1..Len(groups.val) : Range(groups.val[i].features) \subseteq Range(features)
        /\ \A a, b \in Range(features) :
              (GroupsOf(a) = GroupsOf(b)) <=> (GroupingValue(feat[a]) = GroupingValue(feat[b]))
        /\ After("gff_group") =>
              \A a \in Range(features) :
                 NoValue(feat[a], last.arg) =>
                    \A i \in GroupsOf(a) : groups.val[i].name = <<>>

(* C6 witness: three records in two groups, two of them without a value for *)
(* the tag for different reasons, sharing the group named ""                *)
C6_Witness ==
    /\ After("gff_group")
    /\ Len(features) = 3
    /\ Len(groups.val) = 2
    /\ \E a, b \in Range(features) :
          /\ feat[a].attribute = <<>>
          /\ feat[b].attribute = TAG \o <<" ", " ">>
          /\ GroupsOf(a) = GroupsOf(b)
          /\ \A i \in GroupsOf(a) : groups.val[i].name = <<>>

(* C5: whenever a grouping index exists, every group has                   *)
(* group.start = min(member.start) and group.end = max(member.end) over its *)
(* current members, also after the operations that add members or change    *)
(* member coordinates.                                                      *)
C5_GroupSpan ==
    groups # NULL =>
        \A i \in 1..Len(groups.val) :
            LET m == Range(groups.val[i].features)
            IN  m # {} =>
                   /\ groups.val[i].start = Min({feat[a].start : a \in m})
                   /\ groups.val[i].end = Max({feat[a].end : a \in m})

(* number of places of the list s that hold a *)
CountIn(s, a) == Cardinality({i \in 1..Len(s) : s[i] = a})

DerivedTypes ==
    {GFF_UTR5_TYPE, GFF_UTR3_TYPE, GFF_INTRON_TYPE, GFF_START_TYPE, GFF_STOP_TYPE,
     GFF_SPLICE5_TYPE, GFF_SPLICE3_TYPE}

(* C9: after any sequence of gff_create_utrs, gff_create_introns and        *)
(* gff_create_signals on a grouped set whose flat list and groups agree,    *)
(* they still agree: every record, derived ones included, is once in the    *)
(* flat list and once in the member list of exactly one group, the group of *)
(* the transcript it was copied from, so both views hold the same multiset. *)
C9_ViewsAgree ==
    groups # NULL =>
        /\ \A a \in 1..Len(feat) : CountIn(features, a) = Cardinality(PlacesOf(a))
        /\ \A a \in 1..Len(feat) : CountIn(features, a) = 1
        /\ \A a \in 1..Len(feat) :
              \A i \in GroupsOf(a) : groups.val[i].name = TagValue(feat[a], TAG)

(* C9 witness: two derivations in a row have added features to a set of two *)
(* transcripts, the second one at least one feature                         *)
C9_Witness ==
    /\ nops = 2
    /\ Len(groups.val) = 2
    /\ Len(feat) > Len(pre.feat)
    /\ Len(pre.feat) > MaxFeats
    /\ \E a \in Range(features) : feat[a].feature \in {GFF_UTR5_TYPE, GFF_INTRON_TYPE}
    /\ \E a \in Range(features) : feat[a].feature \in {GFF_SPLICE5_TYPE, GFF_START_TYPE}

(* the members gff_create_utrs added to group i *)
NewMembers(i) ==
    {groups.val[i].features[j] :
        j \in (Len(pre.groups.val[i].features) + 1)..Len(groups.val[i].features)}

(* the UTRs C10 promises for group i of the set before the call: pairs of an *)
(* exon's address and the record of the UTR; the group's strand is that of   *)
(* its first member                                                          *)
PromisedUtrs(i) ==
    LET g == pre.groups.val[i]
        F == pre.feat
        cds == {a \in Range(g.features) : F[a].feature = GFF_CDS_TYPE}
        exons == {a \in Range(g.features) : F[a].feature = GFF_EXON_TYPE}
        cs == Min({F[a].start : a \in cds})
        ce == Max({F[a].end : a \in cds})
        minus == F[g.features[1]].strand = "-"
    IN  IF cds = {} THEN {}
        ELSE {<<e, "lower", [F[e] EXCEPT !.end = Min({F[e].end, cs - 1}),
                                    !.feature = IF minus THEN GFF_UTR3_TYPE
                                                ELSE GFF_UTR5_TYPE]>> :
                 e \in {x \in exons : F[x].start < cs}}
             \cup
             {<<e, "upper", [F[e] EXCEPT !.start = Max({F[e].start, ce + 1}),
                                    !.feature = IF minus THEN GFF_UTR5_TYPE
                                                ELSE GFF_UTR3_TYPE]>> :
                 e \in {x \in exons : F[x].end > ce}}

(* records as the reader validates them: 1-based, start <= end *)
ValidCoordinates(F) == \A a \in 1..Len(F) : 1 <= F[a].start /\ F[a].start <= F[a].end

(* C10: on a set of valid records (1 <= start <= end),                       *)
(* gff_create_utrs gives every exon of a group with a CDS one UTR            *)
(* [exon.start, min(exon.end, cds_start-1)] for its part below the group's   *)
(* least CDS start and one UTR [max(exon.start, cds_end+1), exon.end] for    *)
(* its part above the greatest CDS end, the lower labelled 5'UTR and the     *)
(* upper 3'UTR on '+', swapped on '-'; no UTR intersects [cds_start,         *)
(* cds_end]; no existing feature is modified.                                *)
C10_CreateUtrs ==
    (After("gff_create_utrs") /\ ValidCoordinates(pre.feat)) =>
        /\ \A a \in 1..Len(pre.feat) : feat[a] = pre.feat[a]
        /\ Len(groups.val) = Len(pre.groups.val)
        /\ \A i \in 1..Len(groups.val) :
              LET promised == PromisedUtrs(i)
                  new == NewMembers(i)
                  cds == {a \in Range(pre.groups.val[i].features) :
                             pre.feat[a].feature = GFF_CDS_TYPE}
              IN  /\ SubSeq(groups.val[i].features, 1, Len(pre.groups.val[i].features))
                        = pre.groups.val[i].features
                  /\ \A r \in {feat[a] : a \in new} \cup {p[3] : p \in promised} :
                        Cardinality({a \in new : feat[a] = r})
                            = Cardinality({p \in promised : p[3] = r})
                  /\ \A a \in new :
                        ~(/\ feat[a].start <= Max({pre.feat[c].end : c \in cds})
                          /\ Min({pre.feat[c].start : c \in cds}) <= feat[a].end)

(* C10 witness: the example of section 8, scaled: the '+' exon over the whole *)
(* range with the CDS inside it got a 5'UTR below and a 3'UTR above           *)
C10_Witness ==
    /\ After("gff_create_utrs")
    /\ pre.feat = ExampleUTR
    /\ \E a, b \in NewMembers(1) :
          /\ feat[a].feature = GFF_UTR5_TYPE
          /\ <<feat[a].start, feat[a].end>> = <<1, 1>>
          /\ feat[b].feature = GFF_UTR3_TYPE
          /\ <<feat[b].start, feat[b].end>> = <<MaxCoord, MaxCoord>>

(* C11: on a set sorted by (start, end), a second gff_flatten right after a *)
(* first one merges nothing: records, coordinates, scores and order of the  *)
(* feature list are those the first run left.                               *)
C11_FlattenIdempotent ==
    (After("gff_flatten") /\ log = <<"gff_flatten">>) =>
        /\ features = pre.features
        /\ feat = pre.feat
        /\ freed = pre.freed

(* C11 witness: the second run follows a first run that merged three *)
(* records into one and left another                                 *)
C11_Witness ==
    /\ After("gff_flatten")
    /\ log = <<"gff_flatten">>
    /\ Len(feat) = 3
    /\ Len(features) = 2
    /\ Cardinality(freed) = 1

(* the merger ran once on the sorted set *)
MergedOnce(ops) == last.op \in ops /\ nops = 1

(* C12: when the merger merges a feature into the kept feature before it, *)
(* the result covers both, start prev.start and end max(prev.end,         *)
(* next.end), so every record of the sorted input lies within a kept      *)
(* record afterwards; the score is the sum when both are defined.         *)
C12_MergeCovers ==
    MergedOnce({"gff_flatten", "gff_flatten_within_groups"}) =>
        \A a \in Range(pre.features) :
            \E b \in Range(features) :
                /\ feat[b].start <= pre.feat[a].start
                /\ pre.feat[a].end <= feat[b].end

(* the groups among gs that list address a *)
GroupsIn(gs, a) == {i \in 1..Len(gs) : a \in Range(gs[i].features)}

(* the records the last operation freed *)
MergedAway == freed \ pre.freed

(* the kept record that a merged-away record went into: the nearest kept *)
(* record before it in the list the merger ran over                      *)
MergedIntoOf(a) ==
    LET at == CHOOSE j \in 1..Len(pre.features) : pre.features[j] = a
        kept == {j \in 1..(at - 1) : pre.features[j] \in Range(features)}
    IN  pre.features[Max(kept)]

(* C13: gff_flatten_sub with keepGroups on a grouped sorted set merges two   *)
(* features only if they are in the same group; a feature left unmerged      *)
(* because of its group stays in the set; every merged-away feature is taken *)
(* out of its group's member list, so no group refers to a freed record and  *)
(* the flat list and the groups hold the same records.                       *)
C13_KeepGroupsConsistent ==
    (MergedOnce({"gff_flatten_sub"}) /\ pre.groups # NULL) =>
        /\ groups # NULL
        /\ \A a \in MergedAway :
              GroupsIn(pre.groups.val, a) = GroupsIn(pre.groups.val, MergedIntoOf(a))
        /\ \A a \in Range(pre.features) : a \notin freed => a \in Range(features)
        /\ \A i \in 1..Len(groups.val) : Range(groups.val[i].features) \cap freed = {}
        /\ Range(features) = UNION {Range(groups.val[i].features) : i \in 1..Len(groups.val)}

(* C14: gff_flatten_within_groups never merges two features that belong to *)
(* different groups of the index.                                          *)
C14_WithinGroupsOnly ==
    (MergedOnce({"gff_flatten_within_groups"}) /\ pre.groups # NULL) =>
        \A a \in MergedAway :
            GroupsIn(pre.groups.val, a) = GroupsIn(pre.groups.val, MergedIntoOf(a))

(* the line that was read before the print, and the columns printed *)
LineRead == log[last.arg[1]]

Printed == last.arg[2]

(* C15: an external frame f in {0,1,2} is stored as (3 - f) % 3 and printed  *)
(* as (3 - stored) % 3, which is f again; the undefined frame '.' is stored  *)
(* as the undefined value and printed as '.'.                                *)
C15_FrameRoundTrip ==
    After("gff_print_feat") =>
        LET stored == feat[features[last.arg[1]]].frame
            col == IF Len(LineRead) > 7 THEN LineRead[8] ELSE <<".">>
        IN  /\ \A f \in 0..2 :
                  col = IntStr(f) => stored = (3 - f) % 3 /\ Printed[8] = IntStr(f)
            /\ col = <<".">> => stored = GFF_NULL_FRAME /\ Printed[8] = <<".">>
            /\ (col = <<".">> \/ \E f \in 0..2 : col = IntStr(f))

(* C15 witness: a line with external frame 1 was stored as 2 and printed *)
C15_Witness ==
    /\ After("gff_print_feat")
    /\ Len(LineRead) = 9
    /\ LineRead[8] = <<"1">>
    /\ feat[features[last.arg[1]]].frame = 2
    /\ Printed[8] = <<"1">>

(* the operations that require a grouping index *)
RequiringGroups ==
    {"gff_remove_overlaps", "gff_fix_start_stop", "gff_absorb_helpers", "gff_add_gene_id",
     "gff_filter_by_group", "gff_create_utrs", "gff_create_introns", "gff_create_signals"}

(* C16: each operation that requires a grouping index, called on an         *)
(* ungrouped set, aborts the run with no record modified, added, removed or *)
(* reordered; gff_group_idx aborts when the set is grouped and the feature  *)
(* is in no group, and returns -1 without aborting when the set is          *)
(* ungrouped.                                                               *)
C16_AbortsUntouched ==
    /\ (last.op \in RequiringGroups /\ pre.groups = NULL) => died /\ Cur = pre
    /\ After("gff_group_idx") =>
          /\ (pre.groups # NULL /\ GroupsIn(pre.groups.val, last.arg[1]) = {}) => died
          /\ pre.groups = NULL => ~died /\ last.arg[2] = -1 /\ Cur = pre

(* C16 witness: gff_filter_by_group died on an ungrouped set of two records *)
C16_Witness ==
    /\ died
    /\ After("gff_filter_by_group")
    /\ pre.groups = NULL
    /\ Len(pre.features) = 2
    /\ Cur = pre

(* the codons of the given type in group g of the set before the call *)
CodonsOf(g, type) == {a \in Range(g.features) : pre.feat[a].feature = type}

(* C20: gff_fix_start_stop never inverts an interval: with start <= end in   *)
(* every feature before the call, every CDS has start <= end after it.  In   *)
(* a group with one start codon, a '+' CDS that begins right after it starts *)
(* at the codon's start, a '-' CDS that ends right before it ends at the     *)
(* codon's end; in a group with one stop codon, a '+' CDS whose end is the   *)
(* codon's end is cut back to stop.start - 1, a '-' CDS whose start is the   *)
(* codon's start is moved to stop.end + 1, only when start <= end is kept;   *)
(* nothing else changes.                                                     *)
C20_FixStartStop ==
    (After("gff_fix_start_stop") /\ ~died
        /\ \A a \in 1..Len(pre.feat) : pre.feat[a].start <= pre.feat[a].end) =>
        /\ \A a \in 1..Len(feat) : feat[a].feature = GFF_CDS_TYPE => feat[a].start <= feat[a].end
        /\ \A a \in 1..Len(feat) : feat[a].feature # GFF_CDS_TYPE => feat[a] = pre.feat[a]
        /\ features = pre.features /\ groups = pre.groups /\ freed = pre.freed
        /\ \A i \in 1..Len(pre.groups.val) :
              LET g == pre.groups.val[i]
                  starts == CodonsOf(g, GFF_START_TYPE)
                  stops == CodonsOf(g, GFF_STOP_TYPE)
              IN  \A a \in CodonsOf(g, GFF_CDS_TYPE) :
                     LET old == pre.feat[a]
                         new == feat[a]
                     IN  /\ \A c \in starts :
                               Cardinality(starts) = 1 =>
                                  /\ (old.strand = "+" /\ old.start = pre.feat[c].end + 1)
                                        => new.start = pre.feat[c].start
                                  /\ (old.strand = "-" /\ old.end = pre.feat[c].start - 1)
                                        => new.end = pre.feat[c].end
                         /\ \A c \in stops :
                               Cardinality(stops) = 1 =>
                                  /\ (old.strand = "+" /\ old.end = pre.feat[c].end) =>
                                        new.end = IF pre.feat[c].start - 1 >= new.start
                                                  THEN pre.feat[c].start - 1 ELSE old.end
                                  /\ (old.strand = "-" /\ old.start = pre.feat[c].start) =>
                                        new.start = IF pre.feat[c].end + 1 <= new.end
                                                    THEN pre.feat[c].end + 1 ELSE old.start

(* C20 witness: in one '+' transcript with a stop codon, one CDS ending at *)
(* the codon's end was cut back and another, which the cut would have      *)
(* inverted, was left as it was                                            *)
C20_Witness ==
    /\ After("gff_fix_start_stop")
    /\ Len(pre.groups.val) = 1
    /\ \E c \in CodonsOf(pre.groups.val[1], GFF_STOP_TYPE) :
          \E a, b \in CodonsOf(pre.groups.val[1], GFF_CDS_TYPE) :
              /\ pre.feat[a].strand = "+" /\ pre.feat[b].strand = "+"
              /\ pre.feat[a].end = pre.feat[c].end
              /\ pre.feat[b].end = pre.feat[c].end
              /\ feat[a].end = pre.feat[c].start - 1
              /\ pre.feat[c].start - 1 < pre.feat[b].start
              /\ feat[b] = pre.feat[b]

(* C17: gff_add_offset(offset, maxCoord) with maxCoord > 0 on features with  *)
(* start <= end removes a feature iff its shifted end < 1 or its shifted     *)
(* start > maxCoord; every remaining feature has 1 <= start <= end <=        *)
(* maxCoord, start = max(1, old start + offset), end = min(maxCoord, old end *)
(* + offset); the remaining features keep their order.  With maxCoord <= 0   *)
(* no upper bound is applied.                                                *)
C17_AddOffset ==
    (After("gff_add_offset") /\ ValidCoordinates(pre.feat)) =>
        LET offset == last.arg[1]
            maxCoord == last.arg[2]
            removed(a) == \/ pre.feat[a].end + offset < 1
                          \/ maxCoord > 0 /\ pre.feat[a].start + offset > maxCoord
        IN  /\ features = SelectSeq(pre.features, LAMBDA a : ~removed(a))
            /\ \A a \in Range(pre.features) : removed(a) => a \in freed
            /\ \A a \in Range(features) :
                  /\ feat[a].start = Max({1, pre.feat[a].start + offset})
                  /\ feat[a].end = IF maxCoord > 0
                                   THEN Min({maxCoord, pre.feat[a].end + offset})
                                   ELSE pre.feat[a].end + offset
                  /\ 1 <= feat[a].start
                  /\ feat[a].start <= feat[a].end
                  /\ maxCoord > 0 => feat[a].end <= maxCoord

(* C17 witness: with an upper bound, a shift up removed one feature, clamped *)
(* the end of another and kept a third whole                                 *)
C17_Witness ==
    /\ After("gff_add_offset")
    /\ last.arg[1] = 1
    /\ last.arg[2] > 0
    /\ Len(pre.features) = 3
    /\ Len(features) = 2
    /\ \E a \in Range(features) : pre.feat[a].end + 1 > last.arg[2] /\ feat[a].end = last.arg[2]
    /\ \E a \in Range(features) : feat[a].end = pre.feat[a].end + 1

(* C19: after gff_sort on a grouped set each group's member list is in       *)
(* ascending (start, end) order, the group list is in ascending              *)
(* (group.start, group.end) order, and the flat list is the concatenation of *)
(* the member lists in group order, holding the records it held before.      *)
C19_GroupedSort ==
    (After("gff_sort") /\ pre.groups # NULL) =>
        /\ groups # NULL
        /\ \A i \in 1..Len(groups.val) :
              \A j \in 1..(Len(groups.val[i].features) - 1) :
                  InOrder(feat[groups.val[i].features[j]], feat[groups.val[i].features[j + 1]])
        /\ \A i \in 1..(Len(groups.val) - 1) : InOrder(groups.val[i], groups.val[i + 1])
        /\ features = Flat([i \in 1..Len(groups.val) |-> groups.val[i].features])
        /\ \A a \in 1..Len(feat) : CountIn(features, a) = CountIn(pre.features, a)
        /\ feat = pre.feat
        /\ freed = pre.freed

(* C19 witness: the sort moved a later group of two members, themselves out *)
(* of order, in front of another group                                      *)
C19_Witness ==
    /\ After("gff_sort")
    /\ pre.groups # NULL
    /\ Len(groups.val) = 2
    /\ groups.val[1].name = pre.groups.val[2].name
    /\ Len(groups.val[1].features) = 2
    /\ groups.val[1].features # pre.groups.val[2].features

(* C18: on a set sorted by start, for windows of non-decreasing startcol that *)
(* share one cursor starting at 0, each call of                               *)
(* gff_subset_range_overlap_sorted returns copies of the same features, in    *)
(* the same order, as gff_subset_range_overlap on the same window (no set     *)
(* from both when nothing overlaps), and the cursor never decreases.          *)
C18_SortedSubsetSame ==
    After("gff_subset_range_overlap_sorted") =>
        LET r == gff_subset_range_overlap(pre, last.arg[1], last.arg[2])
            subset == last.arg[4]
        IN  /\ (subset = NULL) <=> (r.subset = NULL)
            /\ subset # NULL =>
                  /\ [i \in 1..Len(subset.val) |-> feat[subset.val[i]]]
                        = [i \in 1..Len(r.subset.val) |-> r.S.feat[r.subset.val[i]]]
                  /\ \A a \in Range(subset.val) : a > Len(pre.feat)
            /\ last.arg[3] >= log[1]
            /\ features = pre.features
            /\ SubSeq(feat, 1, Len(pre.feat)) = pre.feat

(* C18 witness: a later window, searched from a cursor past the first       *)
(* feature, returned the two features that follow it                        *)
C18_Witness ==
    /\ After("gff_subset_range_overlap_sorted")
    /\ Len(features) = 3
    /\ log[1] > 0
    /\ last.arg[1] > pre.feat[features[1]].end
    /\ last.arg[4] # NULL
    /\ Len(last.arg[4].val) = 2

(* the records equal in every field but the ones named *)
SameBut(f, h, fields) == \A k \in (DOMAIN f) \ fields : f[k] = h[k]

RECURSIVE TakenLeft(_, _, _, _)
TakenLeft(F, m, k, start) ==
    IF k >= 1 /\ F[m[k]].feature \in HelperTypes /\ F[m[k]].end = start - 1
    THEN LET r == TakenLeft(F, m, k - 1, F[m[k]].start)
         IN  [at |-> r.at, len |-> r.len + (F[m[k]].end - F[m[k]].start + 1)]
    ELSE [at |-> start, len |-> 0]

(* the same going right: its final end and the bases taken in *)
RECURSIVE TakenRight(_, _, _, _)
TakenRight(F, m, k, end) ==
    IF k <= Len(m) /\ F[m[k]].feature \in HelperTypes /\ F[m[k]].start = end + 1
    THEN LET r == TakenRight(F, m, k + 1, F[m[k]].end)
         IN  [at |-> r.at, len |-> r.len + (F[m[k]].end - F[m[k]].start + 1)]
    ELSE [at |-> end, len |-> 0]

NewMemberSeq(i) ==
    SubSeq(groups.val[i].features, Len(pre.groups.val[i].features) + 1,
           Len(groups.val[i].features))

(* the orders of a list of addresses that are in (start, end) order *)
InOrderArrangements(F, as) ==
    {p \in [1..Len(as) -> Range(as)] :
        /\ \A a \in Range(as) : \E j \in 1..Len(as) : p[j] = a
        /\ \A j \in 1..(Len(as) - 1) : InOrder(F[p[j]], F[p[j + 1]])}

(* C23: gff_create_introns adds, for every group with n >= 1 exons, exactly *)
(* n - 1 introns (none for a group without exons): one for each consecutive *)
(* pair (e1, e2) of the group's exons in (start, end) order, from           *)
(* e1.end + 1 to e2.start - 1; it modifies no existing feature.             *)
C23_CreateIntrons ==
    (After("gff_create_introns") /\ ~died) =>
        /\ SubSeq(feat, 1, Len(pre.feat)) = pre.feat
        /\ SubSeq(features, 1, Len(pre.features)) = pre.features
        /\ Len(groups.val) = Len(pre.groups.val)
        /\ Len(features) - Len(pre.features)
              = SumOver(1..Len(groups.val),
                        [i \in 1..Len(groups.val) |-> Len(NewMemberSeq(i))])
        /\ \A i \in 1..Len(groups.val) :
              LET exons == SelectSeq(pre.groups.val[i].features,
                                     LAMBDA a : pre.feat[a].feature = GFF_EXON_TYPE)
                  new == NewMemberSeq(i)
              IN  /\ SubSeq(groups.val[i].features, 1, Len(pre.groups.val[i].features))
                        = pre.groups.val[i].features
                  /\ Len(new) = IF Len(exons) >= 1 THEN Len(exons) - 1 ELSE 0
                  /\ \E p \in InOrderArrangements(pre.feat, exons) :
                        \A j \in 1..Len(new) :
                            /\ feat[new[j]].feature = GFF_INTRON_TYPE
                            /\ feat[new[j]].start = pre.feat[p[j]].end + 1
                            /\ feat[new[j]].end = pre.feat[p[j + 1]].start - 1

(* C23 witness: a group of two exons, listed out of order, gained the intron *)
(* of the gap between them while another group gained none                   *)
C23_Witness ==
    /\ After("gff_create_introns")
    /\ ~died
    /\ \E i \in 1..Len(groups.val) :
          /\ Len(NewMemberSeq(i)) = 1
          /\ feat[NewMemberSeq(i)[1]].start <= feat[NewMemberSeq(i)[1]].end
          /\ ~InOrder(pre.feat[pre.groups.val[i].features[1]],
                      pre.feat[pre.groups.val[i].features[2]])
    /\ \E i \in 1..Len(groups.val) : Len(NewMemberSeq(i)) = 0

(* C27: every intron synthesized by gff_create_introns has start <= end, for *)
(* any grouped input whose features all have start <= end, also when exons   *)
(* of a group are directly adjacent, overlapping or nested.                  *)
C27_IntronsValid ==
    (After("gff_create_introns") /\ ~died /\ ValidCoordinates(pre.feat)) =>
        \A i \in 1..Len(groups.val) :
            \A b \in Range(NewMemberSeq(i)) : feat[b].start <= feat[b].end

(* the CDS features, and the CDS and UTR features, of group i before the call *)
PreCds(i) ==
    {a \in Range(pre.groups.val[i].features) : pre.feat[a].feature = GFF_CDS_TYPE}

PreExons(i) ==
    {a \in Range(pre.groups.val[i].features) :
        pre.feat[a].feature \in {GFF_CDS_TYPE, GFF_UTR5_TYPE, GFF_UTR3_TYPE}}

(* the strand of group i is '-': the strand is that of the first member *)
Minus(i) == pre.feat[pre.groups.val[i].features[1]].strand = "-"

AtLeast3(f) == f.end - f.start + 1 >= 3

(* the members of the given types that group i gained at [s, e] *)
NewAt(i, types, s, e) ==
    {b \in Range(NewMemberSeq(i)) :
        feat[b].feature \in types /\ feat[b].start = s /\ feat[b].end = e}

(* C24: gff_create_signals, for a group whose CDS features at the CDS        *)
(* extremes are at least 3 bp long: on '+' or '.' it adds a start codon      *)
(* [cds_start, cds_start+2] leaving that CDS's start, and a stop codon       *)
(* [cds_end-2, cds_end] reducing that CDS's end by 3; on '-' a stop codon    *)
(* [cds_start, cds_start+2] increasing that CDS's start by 3, and a start    *)
(* codon [cds_end-2, cds_end] leaving that CDS's end.  The stop codon is     *)
(* then disjoint from and directly adjacent to the trimmed CDS, and no codon *)
(* is created from a CDS shorter than 3 bp.                                  *)
C24_Codons ==
    (After("gff_create_signals") /\ ~died) =>
        \A i \in 1..Len(groups.val) :
            LET cs == Min({pre.feat[a].start : a \in PreCds(i)})
                ce == Max({pre.feat[a].end : a \in PreCds(i)})
                AtStart == {a \in PreCds(i) : pre.feat[a].start = cs}
                AtEnd == {a \in PreCds(i) : pre.feat[a].end = ce}
                lower == IF Minus(i) THEN GFF_STOP_TYPE ELSE GFF_START_TYPE
                upper == IF Minus(i) THEN GFF_START_TYPE ELSE GFF_STOP_TYPE
                codons == {b \in Range(NewMemberSeq(i)) :
                              feat[b].feature \in {GFF_START_TYPE, GFF_STOP_TYPE}}
            IN  IF PreCds(i) = {} THEN codons = {}
                ELSE /\ (\A a \in AtStart \cup AtEnd : AtLeast3(pre.feat[a])) =>
                            /\ Cardinality(NewAt(i, {lower}, cs, cs + 2)) = Cardinality(AtStart)
                            /\ Cardinality(NewAt(i, {upper}, ce - 2, ce)) = Cardinality(AtEnd)
                            /\ \A a \in AtStart :
                                  feat[a].start = IF Minus(i) THEN cs + 3 ELSE cs
                            /\ \A a \in AtEnd :
                                  feat[a].end = IF Minus(i) THEN ce ELSE ce - 3
                     /\ Cardinality(codons)
                            = Cardinality({a \in AtStart : AtLeast3(pre.feat[a])})
                              + Cardinality({a \in AtEnd : AtLeast3(pre.feat[a])})

(* C24 witness: a '-' group of two CDS, each 3 bp, got a stop codon at its   *)
(* lower end and a start codon at its upper end                              *)
C24_Witness ==
    /\ After("gff_create_signals")
    /\ ~died
    /\ nops = 1
    /\ \E i \in 1..Len(groups.val) :
          /\ Minus(i)
          /\ Cardinality(PreCds(i)) = 2
          /\ \A a \in PreCds(i) : pre.feat[a].end - pre.feat[a].start + 1 = 3
          /\ \E b \in Range(NewMemberSeq(i)) :
                feat[b].feature = GFF_STOP_TYPE /\ feat[b].start = 1
          /\ \E b \in Range(NewMemberSeq(i)) :
                feat[b].feature = GFF_START_TYPE /\ feat[b].end = MaxSignalCoord

(* no splice site is due before (after) member a of group i: its boundary is *)
(* an end of the CDS span or of the transcript, or it is a UTR that abuts    *)
(* the CDS span                                                              *)
NoSiteBefore(i, a) ==
    LET f == pre.feat[a]
    IN  \/ f.start = Min({pre.feat[x].start : x \in PreExons(i)})
        \/ f.feature = GFF_CDS_TYPE /\ f.start = Min({pre.feat[x].start : x \in PreCds(i)})
        \/ /\ f.feature # GFF_CDS_TYPE
           /\ PreCds(i) # {}
           /\ f.start = Max({pre.feat[x].end : x \in PreCds(i)}) + 1

NoSiteAfter(i, a) ==
    LET f == pre.feat[a]
    IN  \/ f.end = Max({pre.feat[x].end : x \in PreExons(i)})
        \/ f.feature = GFF_CDS_TYPE /\ f.end = Max({pre.feat[x].end : x \in PreCds(i)})
        \/ /\ f.feature # GFF_CDS_TYPE
           /\ PreCds(i) # {}
           /\ f.end = Min({pre.feat[x].start : x \in PreCds(i)}) - 1

(* C25: every splice site added by gff_create_signals is 2 bp long and lies  *)
(* immediately outside a boundary of a CDS or UTR feature of the same group; *)
(* one is added at every CDS/UTR boundary interior to the transcript and     *)
(* none at the ends of the CDS span (also after the trim), at the ends of    *)
(* the transcript, or at a UTR boundary that abuts the CDS span; the site    *)
(* before a feature is a 3' splice site on '+' and 5' on '-', and the        *)
(* reverse for the site after it.                                            *)
C25_SpliceSites ==
    (After("gff_create_signals") /\ ~died /\ ValidCoordinates(pre.feat)) =>
        \A i \in 1..Len(groups.val) :
            LET before == IF Minus(i) THEN GFF_SPLICE5_TYPE ELSE GFF_SPLICE3_TYPE
                after == IF Minus(i) THEN GFF_SPLICE3_TYPE ELSE GFF_SPLICE5_TYPE
            IN  /\ \A b \in Range(NewMemberSeq(i)) :
                      feat[b].feature \in {GFF_SPLICE5_TYPE, GFF_SPLICE3_TYPE} =>
                          /\ feat[b].end - feat[b].start + 1 = 2
                          /\ \E a \in PreExons(i) :
                                \/ /\ feat[b].feature = before
                                   /\ feat[b].end = feat[a].start - 1
                                \/ /\ feat[b].feature = after
                                   /\ feat[b].start = feat[a].end + 1
                /\ \A x \in 1..MaxSignalCoord :
                      /\ Cardinality(NewAt(i, {before}, x - 2, x - 1))
                            = Cardinality({a \in PreExons(i) :
                                  pre.feat[a].start = x /\ ~NoSiteBefore(i, a)})
                      /\ Cardinality(NewAt(i, {after}, x + 1, x + 2))
                            = Cardinality({a \in PreExons(i) :
                                  pre.feat[a].end = x /\ ~NoSiteAfter(i, a)})

(* C28: after gff_create_signals on a grouped input whose features all have  *)
(* start <= end, every feature of the set, trimmed CDS and synthesized codon *)
(* or splice site alike, still has start <= end, also for a CDS of 3, 4 or 5 *)
(* bp that lies at the end of the CDS span from which the stop codon is      *)
(* carved.                                                                   *)
C28_SignalsValid ==
    (After("gff_create_signals") /\ ~died /\ ValidCoordinates(pre.feat)) =>
        \A a \in 1..Len(feat) : feat[a].start <= feat[a].end

(* C29: gff_create_signals comes to the end of every member list though the  *)
(* list grows under it: the features it appends are codons and splice sites, *)
(* each made at an original CDS or UTR feature of the group and none at an   *)
(* appended one, so a group gains at most 4 features for each CDS or UTR     *)
(* feature it had.                                                           *)
C29_SignalsBounded ==
    (After("gff_create_signals") /\ ~died) =>
        \A i \in 1..Len(groups.val) :
            /\ Len(NewMemberSeq(i)) <= 4 * Cardinality(PreExons(i))
            /\ \A b \in Range(NewMemberSeq(i)) :
                  \/ /\ feat[b].feature \in {GFF_START_TYPE, GFF_STOP_TYPE}
                     /\ \E a \in PreCds(i) :
                           /\ pre.feat[a].start <= feat[b].start
                           /\ feat[b].end <= pre.feat[a].end
                  \/ /\ feat[b].feature \in {GFF_SPLICE5_TYPE, GFF_SPLICE3_TYPE}
                     /\ \E a \in PreExons(i) :
                           \/ feat[b].end = feat[a].start - 1
                           \/ feat[b].start = feat[a].end + 1

(* C29 witness: a group of three features gained four, codons and splice     *)
(* sites both, which the loop then passed over                               *)
C29_Witness ==
    /\ After("gff_create_signals")
    /\ ~died
    /\ nops = 1
    /\ \E i \in 1..Len(groups.val) :
          /\ Len(pre.groups.val[i].features) = 3
          /\ Len(NewMemberSeq(i)) >= 4
          /\ \E b \in Range(NewMemberSeq(i)) : feat[b].feature = GFF_START_TYPE
          /\ \E b \in Range(NewMemberSeq(i)) : feat[b].feature = GFF_SPLICE5_TYPE

(* C26: gff_reverse_compl maps start' = end_range - end + start_range and   *)
(* end' = end_range - start + start_range, swaps '+' and '-' and leaves '.', *)
(* keeps each feature's length and start <= end, and reverses the order of   *)
(* the list; applied twice with the same range it restores every feature's   *)
(* start, end and strand and the order of the list.                          *)
C26_ReverseComplInvolution ==
    After("gff_reverse_compl") =>
        LET start_range == last.arg[1]
            end_range == last.arg[2]
            n == Len(pre.features)
        IN  /\ Len(features) = n
            /\ \A i \in 1..n : features[i] = pre.features[n + 1 - i]
            /\ \A a \in Range(pre.features) :
                  /\ feat[a].start = end_range - pre.feat[a].end + start_range
                  /\ feat[a].end = end_range - pre.feat[a].start + start_range
                  /\ feat[a].end - feat[a].start = pre.feat[a].end - pre.feat[a].start
                  /\ pre.feat[a].start <= pre.feat[a].end => feat[a].start <= feat[a].end
                  /\ feat[a].strand = CASE pre.feat[a].strand = "+" -> "-"
                                        [] pre.feat[a].strand = "-" -> "+"
                                        [] OTHER -> pre.feat[a].strand
                  /\ SameBut(feat[a], pre.feat[a], {"start", "end", "strand"})
            /\ nops = 2 => feat = log[1].feat /\ features = log[1].features

(* C26 witness: a list of three features, one of each strand, turned over    *)
(* twice on a range that is not the whole sequence                           *)
C26_Witness ==
    /\ After("gff_reverse_compl")
    /\ nops = 2
    /\ last.arg = <<2, MaxCoord>>
    /\ Len(features) = 3
    /\ {feat[a].strand : a \in Range(features)} = {"+", "-", "."}
    /\ pre.features # features
    /\ \E a \in Range(features) : pre.feat[a].start # feat[a].start

(* the groups of an index as a set: each its name and the records it lists *)
NamedMembers(gs) == {<<gs[i].name, gs[i].features>> : i \in 1..Len(gs)}

(* C30: after gff_filter_by_group(names) the set contains exactly the        *)
(* records of the groups whose name is in names, and the rebuilt index has   *)
(* exactly those groups with the same names and the same members as before,  *)
(* whether the index was built by gff_group on an attribute tag or by        *)
(* gff_group_by_feature, whose recorded tag is "feature".                    *)
C30_FilterByGroup ==
    (After("gff_filter_by_group") /\ ~died) =>
        LET kept == SelectSeq(pre.groups.val, LAMBDA g : g.name \in last.arg)
        IN  /\ Range(features) = UNION {Range(kept[i].features) : i \in 1..Len(kept)}
            /\ Len(features) = Cardinality(Range(features))
            /\ groups # NULL
            /\ Len(groups.val) = Len(kept)
            /\ NamedMembers(groups.val) = NamedMembers(kept)

=============================================================================
